---- MODULE Spec2Model ----
(***************************************************************************)
(* Job orchestration and streaming generation of the reasoning-model       *)
(* trainer backend: ModelTrainer (services/model_trainer.py), its gateway  *)
(* EC2Connector (services/ec2_connector.py) and the HTTP handlers of       *)
(* main.py that call them.                                                 *)
(*                                                                         *)
(* Texts are TLA+ strings and are taken apart character by character, the  *)
(* way the Python code does it (strip, split, "in", re.search, int,        *)
(* float).  Floats are exact rationals <<numerator, denominator>>.         *)
(***************************************************************************)
EXTENDS Integers, Sequences, FiniteSets, TLC

----------------------------------------------------------------------------
(* Numbers *)

Abs(x) == IF x < 0 THEN -x ELSE x

Min(S) == CHOOSE x \in S : \A y \in S : x <= y

Max(S) == CHOOSE x \in S : \A y \in S : x >= y

RECURSIVE GCD(_, _)
GCD(a, b) == IF b = 0 THEN a ELSE GCD(b, a % b)

\* The rational n/d in lowest terms with a positive denominator (d # 0).
Rat(n, d) ==
    LET g == GCD(Abs(n), Abs(d))
        s == IF d < 0 THEN -1 ELSE 1
    IN  <<(s * n) \div g, (s * d) \div g>>

RatOfInt(n) == <<n, 1>>

RatLeq(a, b) == a[1] * b[2] <= b[1] * a[2]

RatLt(a, b) == a[1] * b[2] < b[1] * a[2]

RatAdd(a, b) == Rat(a[1] * b[2] + b[1] * a[2], a[2] * b[2])

RatMul(a, b) == Rat(a[1] * b[1], a[2] * b[2])

RatMin(a, b) == IF RatLeq(a, b) THEN a ELSE b

RatMax(a, b) == IF RatLeq(a, b) THEN b ELSE a

RECURSIVE Pow10(_)
Pow10(k) == IF k = 0 THEN 1 ELSE 10 * Pow10(k - 1)

----------------------------------------------------------------------------
(* Python's str operations *)

Digits == {"0", "1", "2", "3", "4", "5", "6", "7", "8", "9"}

DigitVal(c) ==
    CASE c = "0" -> 0 [] c = "1" -> 1 [] c = "2" -> 2 [] c = "3" -> 3
      [] c = "4" -> 4 [] c = "5" -> 5 [] c = "6" -> 6 [] c = "7" -> 7
      [] c = "8" -> 8 [] c = "9" -> 9

DigitChar(n) ==
    CASE n = 0 -> "0" [] n = 1 -> "1" [] n = 2 -> "2" [] n = 3 -> "3"
      [] n = 4 -> "4" [] n = 5 -> "5" [] n = 6 -> "6" [] n = 7 -> "7"
      [] n = 8 -> "8" [] n = 9 -> "9"

CharAt(s, i) == SubSeq(s, i, i)

\* The characters str.strip() and str.split() treat as whitespace.
IsWs(c) == c \in {" ", "\t", "\n", "\r"}

RECURSIVE LStrip(_)
LStrip(s) ==
    IF s = "" THEN ""
    ELSE IF IsWs(CharAt(s, 1)) THEN LStrip(SubSeq(s, 2, Len(s))) ELSE s

RECURSIVE RStrip(_)
RStrip(s) ==
    IF s = "" THEN ""
    ELSE IF IsWs(CharAt(s, Len(s))) THEN RStrip(SubSeq(s, 1, Len(s) - 1)) ELSE s

\* s.strip()
Strip(s) == RStrip(LStrip(s))

\* The positions at which sub occurs in s.
Occurrences(s, sub) ==
    {i \in 1..(Len(s) - Len(sub) + 1) : SubSeq(s, i, i + Len(sub) - 1) = sub}

\* sub in s
Contains(s, sub) == Occurrences(s, sub) # {}

\* s.split(sep): the fields between the occurrences of sep, empty ones kept.
RECURSIVE SplitOn(_, _)
SplitOn(s, sep) ==
    LET P == Occurrences(s, sep)
    IN  IF P = {} THEN <<s>>
        ELSE <<SubSeq(s, 1, Min(P) - 1)>>
                 \o SplitOn(SubSeq(s, Min(P) + Len(sep), Len(s)), sep)

\* s.split(): the maximal runs of non-whitespace characters.
RECURSIVE SplitWs(_)
SplitWs(s) ==
    LET t == LStrip(s)
        P == {i \in 1..Len(t) : IsWs(CharAt(t, i))}
        e == IF P = {} THEN Len(t) + 1 ELSE Min(P)
    IN  IF t = "" THEN <<>>
        ELSE <<SubSeq(t, 1, e - 1)>> \o SplitWs(SubSeq(t, e, Len(t)))

\* sep.join(parts)
RECURSIVE Join(_, _)
Join(parts, sep) ==
    IF parts = <<>> THEN ""
    ELSE IF Len(parts) = 1 THEN parts[1]
    ELSE parts[1] \o sep \o Join(Tail(parts), sep)

LowerChar(c) ==
    CASE c = "A" -> "a" [] c = "B" -> "b" [] c = "C" -> "c" [] c = "D" -> "d"
      [] c = "E" -> "e" [] c = "F" -> "f" [] c = "G" -> "g" [] c = "H" -> "h"
      [] c = "I" -> "i" [] c = "J" -> "j" [] c = "K" -> "k" [] c = "L" -> "l"
      [] c = "M" -> "m" [] c = "N" -> "n" [] c = "O" -> "o" [] c = "P" -> "p"
      [] c = "Q" -> "q" [] c = "R" -> "r" [] c = "S" -> "s" [] c = "T" -> "t"
      [] c = "U" -> "u" [] c = "V" -> "v" [] c = "W" -> "w" [] c = "X" -> "x"
      [] c = "Y" -> "y" [] c = "Z" -> "z" [] OTHER -> c

\* s.lower()
RECURSIVE Lower(_)
Lower(s) ==
    IF s = "" THEN "" ELSE LowerChar(CharAt(s, 1)) \o Lower(SubSeq(s, 2, Len(s)))

AllDigits(s) == s # "" /\ \A i \in 1..Len(s) : CharAt(s, i) \in Digits

RECURSIVE ParseNat(_)
ParseNat(s) ==
    IF s = "" THEN 0
    ELSE 10 * ParseNat(SubSeq(s, 1, Len(s) - 1)) + DigitVal(CharAt(s, Len(s)))

\* Whether int(s) returns: an optional sign, then decimal digits.
IsInt(s) ==
    IF s # "" /\ CharAt(s, 1) \in {"+", "-"}
    THEN AllDigits(SubSeq(s, 2, Len(s)))
    ELSE AllDigits(s)

\* int(s), where IsInt(s)
ParseInt(s) ==
    IF CharAt(s, 1) = "-" THEN -ParseNat(SubSeq(s, 2, Len(s)))
    ELSE IF CharAt(s, 1) = "+" THEN ParseNat(SubSeq(s, 2, Len(s)))
    ELSE ParseNat(s)

\* Whether float(s) returns, for s a run of digits and dots: at most one dot
\* and at least one digit.
IsFloat(s) ==
    /\ Cardinality(Occurrences(s, ".")) <= 1
    /\ \E i \in 1..Len(s) : CharAt(s, i) \in Digits

\* float(s), where IsFloat(s)
ParseFloat(s) ==
    LET parts == SplitOn(s, ".")
        frac  == IF Len(parts) = 2 THEN parts[2] ELSE ""
    IN  Rat(ParseNat(parts[1] \o frac), Pow10(Len(frac)))

\* str(n) for an integer n
RECURSIVE NatToStr(_)
NatToStr(n) ==
    IF n < 10 THEN DigitChar(n) ELSE NatToStr(n \div 10) \o DigitChar(n % 10)

IntToStr(n) == IF n < 0 THEN "-" \o NatToStr(-n) ELSE NatToStr(n)

\* seq[-n:]
LastN(seq, n) ==
    IF Len(seq) <= n THEN seq ELSE SubSeq(seq, Len(seq) - n + 1, Len(seq))
----------------------------------------------------------------------------
(* The job record and the progress log parser (ModelTrainer) *)

None == <<>>

RUNNING == "running"

COMPLETED == "completed"

FAILED == "failed"

STOPPED == "stopped"

PENDING == "pending"

TerminalStatuses == {COMPLETED, FAILED, STOPPED}

\* The number of log lines a record keeps.
LogWindow == 20

\* A variant that stores the record as Pending.
NewJobPending(tid, pid, epochs, now) ==
    [job_id        |-> "job-" \o tid,
     pid           |-> pid,
     status        |-> PENDING,
     created_at    |-> now,
     updated_at    |-> now,
     progress      |-> RatOfInt(0),
     current_epoch |-> 0,
     total_epochs  |-> epochs,
     loss          |-> None,
     eval_loss     |-> None,
     learning_rate |-> None,
     logs          |-> <<>>]

\* The record start_training stores on the remote path.
NewJob(tid, pid, epochs, now) ==
    [job_id        |-> "job-" \o tid,
     pid           |-> pid,
     status        |-> RUNNING,
     created_at    |-> now,
     updated_at    |-> now,
     progress      |-> RatOfInt(0),
     current_epoch |-> 0,
     total_epochs  |-> epochs,
     loss          |-> None,
     eval_loss     |-> None,
     learning_rate |-> None,
     logs          |-> <<>>]

\* The first whitespace-separated part of the line that contains "Epoch".
EpochPart(log) ==
    LET parts == SplitWs(log)
        k     == Min({i \in 1..Len(parts) : Contains(parts[i], "Epoch")})
    IN  parts[k]

\* epoch_part.split('/')[0].split(): the words before the first slash.
EpochWords(log) == SplitWs(SplitOn(EpochPart(log), "/")[1])

\* Whether int(epoch_part.split('/')[0].split()[-1]) returns.
EpochParses(log) ==
    /\ EpochWords(log) # <<>>
    /\ IsInt(EpochWords(log)[Len(EpochWords(log))])

EpochOf(log) == ParseInt(EpochWords(log)[Len(EpochWords(log))])

\* What the epoch rule reads in one line: <<current_epoch>>, or <<>> when
\* the line does not hold "Epoch" and "/" or int() raises (swallowed).
ReadEpoch(log) ==
    IF Contains(log, "Epoch") /\ Contains(log, "/") /\ EpochParses(log)
    THEN <<EpochOf(log)>>
    ELSE <<>>

\* The position after the characters [:\s]* that follow position i - 1.
RECURSIVE SkipSeparators(_, _)
SkipSeparators(s, i) ==
    IF i <= Len(s) /\ (CharAt(s, i) = ":" \/ IsWs(CharAt(s, i)))
    THEN SkipSeparators(s, i + 1)
    ELSE i

\* The end of the run of [0-9.] that starts at position i (i - 1 if none).
RECURSIVE NumberEnd(_, _)
NumberEnd(s, i) ==
    IF i <= Len(s) /\ (CharAt(s, i) \in Digits \/ CharAt(s, i) = ".")
    THEN NumberEnd(s, i + 1)
    ELSE i - 1

\* The occurrences of "loss" at which loss[:\s]*([0-9\.]+) matches.
LossMatches(s) ==
    {i \in Occurrences(s, "loss") :
        NumberEnd(s, SkipSeparators(s, i + 4)) >= SkipSeparators(s, i + 4)}

\* group(1) of re.search(r'loss[:\s]*([0-9\.]+)', s): the leftmost match.
LossGroup(s) ==
    LET i == Min(LossMatches(s))
        b == SkipSeparators(s, i + 4)
    IN  SubSeq(s, b, NumberEnd(s, b))

\* What the loss rule reads in one line: <<loss>>, or <<>> when there is no
\* match or float() raises (swallowed).
ReadLoss(log) ==
    IF /\ Contains(Lower(log), "loss")
       /\ LossMatches(Lower(log)) # {}
       /\ IsFloat(LossGroup(Lower(log)))
    THEN <<ParseFloat(LossGroup(Lower(log)))>>
    ELSE <<>>

\* One captured output as the refresh reads it: whether stdout.strip() is
\* empty, its lines, and what the two rules and the completion test find in
\* each line.
ReadOutput(stdout) ==
    LET logs == SplitOn(Strip(stdout), "\n")
    IN  [blank     |-> Strip(stdout) = "",
         logs      |-> logs,
         epochs    |-> [i \in 1..Len(logs) |-> ReadEpoch(logs[i])],
         losses    |-> [i \in 1..Len(logs) |-> ReadLoss(logs[i])],
         completed |-> \E i \in 1..Len(logs) :
                          Contains(logs[i], "Training completed")]

\* The epoch rule for one line.  A division by zero is swallowed where it
\* is raised: current_epoch is assigned before it.
ApplyEpochRule(job, epoch) ==
    IF epoch = <<>> THEN job
    ELSE IF job.total_epochs = 0
    THEN [job EXCEPT !.current_epoch = epoch[1]]
    ELSE [job EXCEPT !.current_epoch = epoch[1],
                     !.progress = Rat(epoch[1] * 100, job.total_epochs)]

\* A variant that keeps the first loss it has read.
ApplyLossRuleFirstOnly(job, loss) ==
    IF loss = <<>> \/ job.loss # None THEN job ELSE [job EXCEPT !.loss = loss[1]]

\* The loss rule for one line.
ApplyLossRule(job, loss) ==
    IF loss = <<>> THEN job ELSE [job EXCEPT !.loss = loss[1]]

\* The loop over the lines of one batch, in order, from line i on.
RECURSIVE ParseLogs(_, _, _)
ParseLogs(job, read, i) ==
    IF i > Len(read.logs) THEN job
    ELSE ParseLogs(ApplyLossRule(ApplyEpochRule(job, read.epochs[i]),
                                 read.losses[i]),
                   read, i + 1)

\* A variant that marks every refreshed job Completed.
ApplyCompletionAlways(job, completed) ==
    [job EXCEPT !.status = COMPLETED, !.progress = RatOfInt(100)]

\* The completion check that ends a refresh.
ApplyCompletion(job, completed) ==
    IF completed
    THEN [job EXCEPT !.status = COMPLETED, !.progress = RatOfInt(100)]
    ELSE job

\* A variant that checks for completion before the loop over the lines.
RefreshFromCompletionFirst(job, read, now) ==
    [ParseLogs(ApplyCompletion([job EXCEPT !.logs = LastN(read.logs, LogWindow)],
                               read.completed),
               read, 1)
        EXCEPT !.updated_at = now]

\* The refresh proper, for an output that is not blank.
RefreshFrom(job, read, now) ==
    ApplyCompletion(
        [ParseLogs([job EXCEPT !.logs = LastN(read.logs, LogWindow)], read, 1)
            EXCEPT !.updated_at = now],
        read.completed)

\* A variant that marks the job Failed when the kill is refused.
StopResultOrFailed(job, result, now) ==
    IF result.success
    THEN [job EXCEPT !.status = STOPPED, !.updated_at = now]
    ELSE [job EXCEPT !.status = FAILED, !.updated_at = now]

\* stop_training once the kill command has returned `result`.
StopResult(job, result, now) ==
    IF result.success
    THEN [job EXCEPT !.status = STOPPED, !.updated_at = now]
    ELSE job

\* A variant that stamps the failure with the time of creation.
ProbeDeadAtCreation(job, now) ==
    [job EXCEPT !.status = FAILED, !.updated_at = job.created_at]

\* The liveness probe of a Monitor cycle, once ps has returned failure.
ProbeDead(job, now) == [job EXCEPT !.status = FAILED, !.updated_at = now]

\* A variant whose snapshot leaves the logs out.
StatusResponseWithoutLogs(tid, job) ==
    [training_id   |-> tid,
     status        |-> job.status,
     progress      |-> job.progress,
     current_epoch |-> job.current_epoch,
     total_epochs  |-> job.total_epochs,
     loss          |-> job.loss,
     logs          |-> <<>>,
     updated_at    |-> job.updated_at]

\* The snapshot get_training_status returns.
StatusResponse(tid, job) ==
    [training_id   |-> tid,
     status        |-> job.status,
     progress      |-> job.progress,
     current_epoch |-> job.current_epoch,
     total_epochs  |-> job.total_epochs,
     loss          |-> job.loss,
     logs          |-> job.logs,
     updated_at    |-> job.updated_at]

----------------------------------------------------------------------------
(* The gateway (EC2Connector.execute_command) *)

\* One returned command: it raised, or it reported success or failure with
\* the captured output.
ExecResult(raised, success, stdout) ==
    [raised |-> raised, success |-> success, stdout |-> stdout]

\* What the development build returns for every command.
MockExecResult == ExecResult(FALSE, TRUE, "Mock command output")

\* Outputs of the detached launch: the process id echoed by the shell, or
\* nothing.
LaunchOutputs == {"4242\n", ""}

\* What execute_command returns outside development as long as the SSH
\* channel is left out: every command reports failure.
StubExecResult == ExecResult(FALSE, FALSE, "")

\* Outputs of the listing of /opt/models/trained filtered by grep: no
\* model, one, or two.
ListingOutputs ==
    {"",
     "reasoning_enhancer_t1\n",
     "reasoning_enhancer_a1\nreasoning_enhancer_t1\n"}

\* What the remote side returns once commands reach it: a transport error,
\* a failure, or a success with some output (a log tail from `logs`, the
\* launch's echo, or nothing).
RemoteResults(kind, logs) ==
    {ExecResult(TRUE, FALSE, ""), ExecResult(FALSE, FALSE, "")}
    \cup {ExecResult(FALSE, TRUE, out) :
             out \in CASE kind = "tail"   -> logs
                       [] kind = "launch" -> LaunchOutputs
                       [] kind = "ls"     -> ListingOutputs
                       [] OTHER           -> {""}}

\* What a command of the given kind may return: in development the mock
\* answer, otherwise the stub's answer or the remote side's.
ExecResults(env, kind, logs) ==
    IF env = "development" THEN {MockExecResult}
    ELSE {StubExecResult} \cup RemoteResults(kind, logs)

\* Whether awaiting a command lets other tasks run: the development build
\* answers without suspending, a remote command is awaited over the network.
GatewaySuspends(env) == env # "development"

\* The log tails of the concurrency model: nothing, the example line of the
\* design, a line the epoch rule reads, and the script's last line.
BaseLogs ==
    {"",
     "Epoch 2/5 - Loss: 1.2345\n",
     "1/2Epoch loss: 0.5\n",
     "1/2Epoch loss: 0.5\nINFO:__main__:Training completed. Model saved to /opt/models/trained/reasoning_enhancer_t1\n"}

\* Further log tails for the parser: an epoch beyond the configured total,
\* and the script's last line followed by an epoch line.
ParserLogs ==
    {"7/2Epoch\n",
     "Training completed\n1/2Epoch loss: 0.5\n"}

\* Log tails of several lines: two epoch lines and two loss lines with
\* other lines between them, and lines no rule looks at.
BatchLogs ==
    {"",
     "4/5Epoch loss: 0.9\nwarmup done\n2/5Epoch\nloss: 0.3\n",
     "Loading data\nstep 10 done\n"}

\* Every output a tail command returns in some model.
\* What the training script writes to its log as it runs, burst by burst:
\* the line of the first epoch, the line of the second, then the steps of
\* the third.  The log only grows and its epoch numbers only increase.
WrittenBursts ==
    <<<<"1/5Epoch loss: 0.9">>,
      <<"2/5Epoch loss: 0.7">>,
      [i \in 1..LogWindow |-> "step done"]>>

\* The lines of the log once k bursts are written.
RECURSIVE WrittenLog(_)
WrittenLog(k) == IF k = 0 THEN <<>> ELSE WrittenLog(k - 1) \o WrittenBursts[k]

\* The output of tail -20 on the log once k bursts are written.
TailOutput(k) ==
    IF k = 0 THEN ""
    ELSE Join(LastN(WrittenLog(k), 20), "\n") \o "\n"

GrowingLogs == {TailOutput(k) : k \in 0..Len(WrittenBursts)}

AllLogs ==
    BaseLogs \cup ParserLogs \cup BatchLogs \cup GrowingLogs
        \cup {MockExecResult.stdout}

\* Each output as the refresh reads it.
LogReadings == [out \in AllLogs |-> ReadOutput(out)]

\* A variant that marks the job Failed when the tail command raises.
UpdateTrainingLogsOrFailed(job, result, now) ==
    IF result.raised THEN [job EXCEPT !.status = FAILED]
    ELSE IF result.success /\ ~LogReadings[result.stdout].blank
    THEN RefreshFrom(job, LogReadings[result.stdout], now)
    ELSE job

\* _update_training_logs once the tail command has returned `result`; an
\* exception is logged and dropped, a failure or a blank output changes
\* nothing.
UpdateTrainingLogs(job, result, now) ==
    IF ~result.raised /\ result.success /\ ~LogReadings[result.stdout].blank
    THEN RefreshFrom(job, LogReadings[result.stdout], now)
    ELSE job

----------------------------------------------------------------------------
(* The model versions (ModelTrainer.list_model_versions) *)

\* What the development build lists.
MockVersions ==
    <<"base", "reasoning_enhancer_v1.0_mock", "reasoning_enhancer_v1.1_mock",
      "reasoning_enhancer_latest_mock">>

\* A variant that puts the base model last.
ListedVersionsBaseLast(result) ==
    IF result.raised THEN <<"base">>
    ELSE (IF result.success /\ Strip(result.stdout) # ""
          THEN SplitOn(Strip(result.stdout), "\n")
          ELSE <<>>) \o <<"base">>

\* list_model_versions once the listing command has returned `result`.
ListedVersions(result) ==
    IF result.raised THEN <<"base">>
    ELSE <<"base">> \o (IF result.success /\ Strip(result.stdout) # ""
                        THEN SplitOn(Strip(result.stdout), "\n")
                        ELSE <<>>)

----------------------------------------------------------------------------
(* The enhancement texts (ModelTrainer._get_enhancement_prefix,            *)
(* _basic_enhancement)                                                     *)

EnhancementTypes ==
    {"reasoning", "logic", "creativity", "analysis", "problem_solving"}

\* instructions.get(enhancement_type, <generic instruction>)
GetEnhancementPrefix(enhancement_type) ==
    CASE enhancement_type = "reasoning" ->
        "You are an expert at enhancing prompts for better reasoning. Transform the given prompt to encourage step-by-step logical thinking and detailed analysis. Add reasoning cues and structure that will help produce more thoughtful, comprehensive responses."
      [] enhancement_type = "logic" ->
        "You are an expert at enhancing prompts for logical analysis. Transform the given prompt to encourage systematic, analytical thinking. Add logical frameworks and structured approaches that will help produce more coherent and well-reasoned responses."
      [] enhancement_type = "creativity" ->
        "You are an expert at enhancing prompts for creative thinking. Transform the given prompt to encourage innovative, diverse perspectives and creative problem-solving. Add elements that promote out-of-the-box thinking and novel approaches."
      [] enhancement_type = "analysis" ->
        "You are an expert at enhancing prompts for systematic analysis. Transform the given prompt to encourage thorough examination, breaking down complex topics into components, and providing structured analytical frameworks."
      [] enhancement_type = "problem_solving" ->
        "You are an expert at enhancing prompts for effective problem-solving. Transform the given prompt to encourage structured problem-solving approaches, clear problem definition, solution generation, and evaluation of alternatives."
      [] OTHER ->
        "You are an expert at enhancing prompts. Transform the given prompt to encourage better thinking and more comprehensive responses."

\* enhancements.get(enhancement_type, <generic template>)["template"]
EnhancementTemplate(enhancement_type) ==
    CASE enhancement_type = "reasoning" ->
        "Let's think step by step about this problem:\n\n{prompt}\n\nTo solve this effectively:\n1. First, I'll identify the key components\n2. Then, I'll analyze the relationships between them\n3. Next, I'll consider multiple solution approaches\n4. Finally, I'll evaluate and choose the best approach\n\nLet me work through this systematically:"
      [] enhancement_type = "logic" ->
        "Let's apply logical reasoning to analyze:\n\n{prompt}\n\nLogical analysis framework:\n1. Identify the core question or hypothesis\n2. Examine the available evidence or premises\n3. Apply logical reasoning to draw conclusions\n4. Test the validity of conclusions\n5. Consider alternative logical pathways\n\nLet me systematically work through this:"
      [] enhancement_type = "creativity" ->
        "Let's approach this creatively and consider multiple perspectives:\n\n{prompt}\n\nCreative exploration strategy:\n1. Brainstorm diverse approaches without initial judgment\n2. Consider analogies from different domains\n3. Explore 'what if' scenarios\n4. Combine ideas in unexpected ways\n5. Challenge assumptions and conventional thinking\n\nLet me explore this creatively:"
      [] enhancement_type = "analysis" ->
        "Let's systematically analyze the following:\n\n{prompt}\n\nAnalytical framework:\n1. Define the scope and boundaries of analysis\n2. Break down into key components\n3. Examine relationships and interdependencies\n4. Identify patterns, trends, and anomalies\n5. Synthesize findings into actionable insights\n\nLet me conduct a thorough analysis:"
      [] enhancement_type = "problem_solving" ->
        "Let's break down this problem into manageable steps:\n\n{prompt}\n\nProblem-solving methodology:\n1. Problem definition: Clearly articulate what needs to be solved\n2. Root cause analysis: Identify underlying causes\n3. Solution generation: Brainstorm multiple approaches\n4. Evaluation: Assess pros, cons, and feasibility\n5. Implementation planning: Create actionable steps\n6. Success metrics: Define how to measure progress\n\nLet me work through this systematically:"
      [] OTHER ->
        "Let's think carefully about: {prompt}\n\nI'll approach this thoughtfully and provide a comprehensive response."

\* template.format(prompt=prompt): the replacement field is filled in; the
\* prompt's own text is not read again.
FormatPrompt(template, prompt) == Join(SplitOn(template, "{prompt}"), prompt)

\* A variant that uses the generic template for every category.
BasicEnhancementGeneric(prompt, enhancement_type) ==
    FormatPrompt(EnhancementTemplate("other"), prompt)

\* _basic_enhancement
BasicEnhancement(prompt, enhancement_type) ==
    FormatPrompt(EnhancementTemplate(enhancement_type), prompt)

\* The request text both pipelines send to the gateway.
EnhancedPromptRequest(prompt, enhancement_type) ==
    GetEnhancementPrefix(enhancement_type) \o "\n\nOriginal prompt: " \o prompt
        \o "\n\nEnhanced version:"

\* The response the development build streams word by word.
MockStreamResponse(prompt) ==
    "Enhanced version of your prompt:\n\n" \o prompt
        \o "\n\nThis is a more detailed and structured approach to your original question, designed to encourage deeper thinking and better reasoning."

\* The prompts of the model: empty, plain, and with irregular whitespace.
Prompts == {"", "Why is the sky blue?", "plan  a\ttrip "}

\* The texts of upstream chunks.
ChunkTexts == {"Let's ", "reason."}

\* What generate_response returns: it raised, or it reported success or
\* failure; on success "response" is a text (is_text) or some other JSON
\* value.
GenerateResult(raised, success, is_text, response) ==
    [raised |-> raised, success |-> success, is_text |-> is_text,
     response |-> response]

\* s[:n]
Prefix(s, n) == SubSeq(s, 1, Min({n, Len(s)}))

\* The development build's answer to a request text.
MockGenerateResult(request) ==
    GenerateResult(FALSE, TRUE, TRUE,
        "[MOCK RESPONSE] Enhanced version of: " \o Prefix(request, 100)
            \o (IF Len(request) > 100 THEN "..." ELSE ""))

\* The "response" texts of the model: empty, blank, plain, with the
\* delimiter once, with it twice, and with nothing after it.
ResponseTexts ==
    {"", " \n", " Think it through. ",
     "Enhanced version: Explain each step.\n",
     "Draft. Enhanced version: first Enhanced version: second ",
     "Sorry. Enhanced version:  "}

\* A hard error of the gateway, thrown to the caller.
GenerateRaises == GenerateResult(TRUE, FALSE, FALSE, "")

\* What generate_response may return: in development the mock answer;
\* otherwise a failure (refused call, or any exception on the way), a
\* success with a text, a success whose "response" is no text, or a hard
\* error.
GenerateResults(env, request) ==
    IF env = "development" THEN {MockGenerateResult(request)}
    ELSE {GenerateResult(FALSE, FALSE, FALSE, ""),
          GenerateResult(FALSE, TRUE, FALSE, ""),
          GenerateRaises}
         \cup {GenerateResult(FALSE, TRUE, TRUE, t) : t \in ResponseTexts}

\* What a call gives back: a text, or an exception.
Returned(text) == [raised |-> FALSE, text |-> text]

Raised == [raised |-> TRUE, text |-> ""]

\* A variant that keeps what follows the first occurrence of the delimiter.
AfterFirstDelimiter(response) ==
    IF Contains(response, "Enhanced version:")
    THEN Strip(SplitOn(response, "Enhanced version:")[2])
    ELSE response

\* response.split("Enhanced version:")[-1].strip() when the delimiter is in
\* the response.
AfterDelimiter(response) ==
    IF Contains(response, "Enhanced version:")
    THEN LET parts == SplitOn(response, "Enhanced version:")
         IN  Strip(parts[Len(parts)])
    ELSE response

\* A variant without the handler: an exception reaches the caller.
EnhancePromptResultUnhandled(prompt, enhancement_type, result) ==
    IF result.raised \/ (result.success /\ ~result.is_text)
    THEN Raised
    ELSE IF result.success
    THEN IF AfterDelimiter(Strip(result.response)) = ""
         THEN Returned(BasicEnhancement(prompt, enhancement_type))
         ELSE Returned(AfterDelimiter(Strip(result.response)))
    ELSE Returned(BasicEnhancement(prompt, enhancement_type))

\* enhance_prompt once generate_response has returned `result`.  An
\* exception of the gateway, and the one .strip() raises on a response that
\* is no text, end in the handler, which returns the fallback.
EnhancePromptResult(prompt, enhancement_type, result) ==
    IF result.raised \/ (result.success /\ ~result.is_text)
    THEN Returned(BasicEnhancement(prompt, enhancement_type))
    ELSE IF result.success
    THEN IF AfterDelimiter(Strip(result.response)) = ""
         THEN Returned(BasicEnhancement(prompt, enhancement_type))
         ELSE Returned(AfterDelimiter(Strip(result.response)))
    ELSE Returned(BasicEnhancement(prompt, enhancement_type))

----------------------------------------------------------------------------
(* State *)

VARIABLES
    environment,    \* ENVIRONMENT, read once at construction
    logCatalogue,   \* the log tails the remote side may return
    epochChoices,   \* the values of training_config.epochs requests carry
    clock,          \* datetime.now()
    training_jobs,  \* ModelTrainer.training_jobs: training_id -> record
    monitors,       \* the tasks start_training created, per training_id
    calls,          \* the requests suspended on a gateway command
    resp,           \* the response sent last
    gw,             \* the gateway command that returned last, and its result
    stream,         \* the streaming request being served
    events,         \* the events sent to its client so far
    enhance,        \* the non-streaming enhancement request being served
    remote          \* the remote training log: how far the script has written
                    \* it, and what each tail command in flight has read

vars == <<environment, logCatalogue, epochChoices, clock, training_jobs,
          monitors, calls, resp, gw, stream, events, enhance, remote>>

\* What no request and no Monitor changes: the settings, and the streaming
\* request, which shares no state with the jobs.
settings == <<environment, logCatalogue, epochChoices, stream, events, enhance>>

\* The settings and the remote log, which only the training script writes.
config == <<settings, remote>>

jobState == <<logCatalogue, epochChoices, clock, training_jobs, monitors,
              calls, resp, gw, remote>>

\* Bounds of the model.
MaxClock == 1

MaxData == 1

\* The ids uuid4 hands out.
TrainingIds == {"t1"}

\* The ids a client may name: those of jobs, and one no job ever has.
QueryIds == TrainingIds \cup {"unknown"}

Environments == {"development", "production"}

Known(tid) == tid \in DOMAIN training_jobs

NoResponse == [op |-> "none", tid |-> "", error |-> "none", body |-> None]

Response(op, tid, error, body) ==
    [op |-> op, tid |-> tid, error |-> error, body |-> body]

\* A suspended request: the command it awaits (pc) and, for a start, the
\* epochs it carries and whether every transfer command so far succeeded;
\* for a status request, whether it directly follows the job's start.
Call(op, tid, pc, epochs, staged, first) ==
    [op |-> op, tid |-> tid, pc |-> pc, epochs |-> epochs, staged |-> staged,
     first |-> first]

\* A returned gateway command: its kind, the job it was about, its result,
\* and whether the request that awaited it was a status request directly
\* following the job's start.
Exchange(kind, tid, result, first) ==
    [kind |-> kind, tid |-> tid, result |-> result, first |-> first]

MonitorTask(kind, pc, epoch) == [kind |-> kind, pc |-> pc, epoch |-> epoch]

\* Whether a task other than the ones awaiting the gateway may take a step.
OthersRun == GatewaySuspends(environment) \/ calls = {}

\* dict assignment training_jobs[tid] = job
PutJob(jobs, tid, job) ==
    [t \in DOMAIN jobs \cup {tid} |-> IF t = tid THEN job ELSE jobs[t]]

\* asyncio.create_task: one more task for tid
Spawn(mons, tid, task) ==
    [t \in DOMAIN mons \cup {tid} |->
        IF t = tid
        THEN (IF t \in DOMAIN mons THEN mons[t] ELSE <<>>) \o <<task>>
        ELSE mons[t]]

SetTask(mons, tid, i, task) == [mons EXCEPT ![tid][i] = task]

\* The streaming request: where its generators stand (pc), its inputs, the
\* loop index i and whether the upstream response is still open.
Stream(pc, prompt, enhancement_type, i, open, words) ==
    [pc |-> pc, prompt |-> prompt, enhancement_type |-> enhancement_type,
     i |-> i, open |-> open, words |-> words]

IdleStream == Stream("idle", "", "", 0, FALSE, <<>>)

\* The non-streaming request: where it stands (pc), its inputs, what the
\* gateway's generate returned and what the request gave back.
Enhance(pc, prompt, enhancement_type, generated, outcome) ==
    [pc |-> pc, prompt |-> prompt, enhancement_type |-> enhancement_type,
     generated |-> generated, outcome |-> outcome]

IdleEnhance == Enhance("idle", "", "", None, None)

\* The remote log before the script has written a line; no tail in flight.
NoRemoteLog == [grown |-> 0, read |-> [monitor |-> None, status |-> None]]

JobInit ==
    /\ environment \in Environments
    /\ logCatalogue = BaseLogs
    /\ epochChoices = {2}
    /\ clock = 0
    /\ training_jobs = <<>>
    /\ monitors = <<>>
    /\ calls = {}
    /\ resp = NoResponse
    /\ gw = Exchange("none", "", ExecResult(FALSE, FALSE, ""), FALSE)
    /\ stream = IdleStream
    /\ events = <<>>
    /\ enhance = IdleEnhance
    /\ remote = NoRemoteLog

\* The settings shared by every model: nothing registered, nothing in flight.
Settled(env, logs, epochs) ==
    /\ environment = env
    /\ logCatalogue = logs
    /\ epochChoices = epochs
    /\ clock = 0
    /\ training_jobs = <<>>
    /\ monitors = <<>>
    /\ calls = {}
    /\ resp = NoResponse
    /\ gw = Exchange("none", "", ExecResult(FALSE, FALSE, ""), FALSE)
    /\ stream = IdleStream
    /\ events = <<>>
    /\ enhance = IdleEnhance
    /\ remote = NoRemoteLog

\* The values of training_config.epochs of the parser model: none (the
\* schema puts no lower bound on the field), and the total of the design's
\* example line.
ParserEpochs == {0, 5}

\* A remote deployment whose log holds any of the parser's tails.
ParseInit == Settled("production", BaseLogs \cup ParserLogs, ParserEpochs)

\* The total of the batch model's jobs.
BatchEpochs == {5}

\* A remote deployment whose log holds the tails of several lines.
BatchInit == Settled("production", BatchLogs, BatchEpochs)

\* The number of epochs of the development model's jobs.
MockEpochs == 9

\* A development deployment.
MockInit == Settled("development", BaseLogs, {MockEpochs})

----------------------------------------------------------------------------
(* The development build's mock job (start_training, _monitor_mock_training) *)

RECURSIVE PadZeros(_, _)
PadZeros(s, k) == IF Len(s) >= k THEN s ELSE PadZeros("0" \o s, k)

\* r * 10^k rounded to an integer, ties to even (r >= 0).
RoundScaled(r, k) ==
    LET num == r[1] * Pow10(k)
        q   == num \div r[2]
        rem == num % r[2]
    IN  IF 2 * rem > r[2] \/ (2 * rem = r[2] /\ q % 2 = 1) THEN q + 1 ELSE q

\* f"{r:.kf}" for r >= 0 and k >= 1
FormatFixed(r, k) ==
    NatToStr(RoundScaled(r, k) \div Pow10(k)) \o "."
        \o PadZeros(NatToStr(RoundScaled(r, k) % Pow10(k)), k)

\* max(0.1, 2.5 - (epoch * 0.2))
MockLoss(epoch) == RatMax(Rat(1, 10), Rat(25 - 2 * epoch, 10))

\* The record start_training stores in development mode.
NewMockJob(tid, n, epochs, now) ==
    [NewJob(tid, "mock_pid", epochs, now) EXCEPT
        !.logs = <<"Mock training started...",
                   "Training " \o IntToStr(n) \o " examples",
                   "Initializing model...">>]

\* One pass of the mock monitor's loop body.
MockEpoch(job, epoch, now) ==
    [job EXCEPT
        !.current_epoch = epoch,
        !.progress      = Rat(epoch * 100, job.total_epochs),
        !.loss          = MockLoss(epoch),
        !.eval_loss     = RatMul(MockLoss(epoch), Rat(9, 10)),
        !.learning_rate = Rat(1, 10000),
        !.updated_at    = now,
        !.logs = LastN(job.logs \o
            <<"Epoch " \o IntToStr(epoch) \o "/" \o IntToStr(job.total_epochs)
                  \o " - Loss: " \o FormatFixed(MockLoss(epoch), 4),
              "Progress: " \o FormatFixed(Rat(epoch * 100, job.total_epochs), 1)
                  \o "% - ETA: " \o IntToStr(job.total_epochs - epoch)
                  \o " epochs remaining">>,
            LogWindow)]

\* A variant that completes the job whatever its status.
MockFinishWhateverStatus(job, now) ==
    [job EXCEPT !.status = COMPLETED, !.progress = RatOfInt(100),
                !.updated_at = now,
                !.logs = Append(job.logs, "Mock training completed successfully!")]

\* What the mock monitor does once its loop has ended.
MockFinish(job, now) ==
    IF job.status = RUNNING
    THEN [job EXCEPT !.status = COMPLETED, !.progress = RatOfInt(100),
                     !.updated_at = now,
                     !.logs = Append(job.logs, "Mock training completed successfully!")]
    ELSE job

----------------------------------------------------------------------------
(* Requests: main.start_training, get_training_status, stop_training *)

MaxInFlight == 2

\* A variant that hands out ids again.
FreshIdsReused == TrainingIds

\* The id uuid4 gives a new request: one no record and no start in flight has.
FreshIds == {t \in TrainingIds : ~Known(t) /\ \A c \in calls : c.tid # t}

\* POST /training/start with n training items.  Empty data is refused by the
\* handler; development registers a mock job at once; otherwise the files are
\* staged and the first transfer command is awaited.
StartCall(tid, n, epochs) ==
    /\ OthersRun
    /\ tid \in FreshIds
    /\ Cardinality(calls) < MaxInFlight
    /\ IF n = 0
       THEN /\ resp' = Response("start", tid, "invalid", None)
            /\ UNCHANGED <<training_jobs, monitors, calls>>
       ELSE IF environment = "development"
       THEN /\ training_jobs' = PutJob(training_jobs, tid,
                                       NewMockJob(tid, n, epochs, clock))
            /\ monitors' = Spawn(monitors, tid, MonitorTask("mock", "ready", 1))
            /\ resp' = Response("start", tid, "none", "job-" \o tid)
            /\ UNCHANGED calls
       ELSE /\ calls' = calls \cup {Call("start", tid, "mkdir", epochs, TRUE, FALSE)}
            /\ UNCHANGED <<training_jobs, monitors, resp>>
    /\ UNCHANGED <<config, clock, gw>>

\* A variant that launches before the script is marked executable.
NextTransferLaunchFirst(pc) ==
    CASE pc = "mkdir"     -> "catdata"
      [] pc = "catdata"   -> "catscript"
      [] pc = "catscript" -> "launch"
      [] pc = "chmod"     -> "launch"

\* The command _transfer_files_to_ec2 and start_training await after `pc`.
NextTransfer(pc) ==
    CASE pc = "mkdir"     -> "catdata"
      [] pc = "catdata"   -> "catscript"
      [] pc = "catscript" -> "chmod"
      [] pc = "chmod"     -> "launch"

\* A transfer command returns: its result is not looked at; only an
\* exception ends the request.
StartTransferReturn(c) ==
    /\ c \in calls /\ c.op = "start"
    /\ c.pc \in {"mkdir", "catdata", "catscript", "chmod"}
    /\ \E result \in ExecResults(environment, c.pc, logCatalogue) :
          /\ gw' = Exchange(c.pc, c.tid, result, FALSE)
          /\ IF result.raised
             THEN /\ calls' = calls \ {c}
                  /\ resp' = Response("start", c.tid, "gateway_error", None)
             ELSE /\ calls' = (calls \ {c}) \cup
                        {Call("start", c.tid, NextTransfer(c.pc), c.epochs,
                              c.staged /\ result.success, FALSE)}
                  /\ UNCHANGED resp
    /\ UNCHANGED <<config, clock, training_jobs, monitors>>

\* A variant that registers the job whenever the launch command returns.
LaunchRegistersUnlessRaised(result) == ~result.raised

\* Whether start_training registers the job, given the launch result.
LaunchRegisters(result) == ~result.raised /\ result.success

\* The launch command returns.
StartLaunchReturn(c) ==
    /\ c \in calls /\ c.op = "start" /\ c.pc = "launch"
    /\ calls' = calls \ {c}
    /\ \E result \in ExecResults(environment, "launch", logCatalogue) :
          /\ gw' = Exchange("launch", c.tid, result, FALSE)
          /\ IF LaunchRegisters(result)
             THEN /\ training_jobs' = PutJob(training_jobs, c.tid,
                          NewJob(c.tid, Strip(result.stdout), c.epochs, clock))
                  /\ monitors' = Spawn(monitors, c.tid,
                                       MonitorTask("remote", "ready", 0))
                  /\ resp' = Response("start", c.tid, "none", "job-" \o c.tid)
             ELSE /\ resp' = Response("start", c.tid,
                          IF result.raised THEN "gateway_error" ELSE "launch_failed",
                          None)
                  /\ UNCHANGED <<training_jobs, monitors>>
    /\ UNCHANGED <<config, clock>>

\* A variant without the membership test.
GetStatusFindsAny(tid) == TRUE

\* Whether the request names a job of the registry (training_id in
\* self.training_jobs).
GetStatusFinds(tid) == Known(tid)

\* GET /training/status/{tid}: not found, or the log tail is awaited.
GetStatusCall(tid) ==
    /\ OthersRun
    /\ IF GetStatusFinds(tid)
       THEN /\ Cardinality(calls) < MaxInFlight
            /\ \A c \in calls : ~(c.op = "status" /\ c.tid = tid)
            /\ calls' = calls \cup
                  {Call("status", tid, "tail", 0, TRUE,
                        calls = {} /\ resp = Response("start", tid, "none", "job-" \o tid))}
            /\ UNCHANGED resp
       ELSE /\ resp' = Response("status", tid, "not_found", None)
            /\ UNCHANGED calls
    /\ UNCHANGED <<config, clock, training_jobs, monitors, gw>>

\* The tail returns: the record is refreshed and its snapshot sent.
GetStatusReturn(c) ==
    /\ c \in calls /\ c.op = "status"
    /\ calls' = calls \ {c}
    /\ \E result \in ExecResults(environment, "tail", logCatalogue) :
          /\ gw' = Exchange("tail", c.tid, result, c.first)
          /\ training_jobs' = [training_jobs EXCEPT
                 ![c.tid] = UpdateTrainingLogs(@, result, clock)]
    /\ resp' = Response("status", c.tid, "none",
                        StatusResponse(c.tid, training_jobs'[c.tid]))
    /\ UNCHANGED <<config, clock, monitors>>

\* Whether the request names a job of the registry.
StopFinds(tid) == Known(tid)

\* POST /training/stop/{tid}: not found, nothing to kill, or the kill is
\* awaited.
StopCall(tid) ==
    /\ OthersRun
    /\ IF ~StopFinds(tid)
       THEN /\ resp' = Response("stop", tid, "not_found", None)
            /\ UNCHANGED calls
       ELSE IF training_jobs[tid].pid = ""
       THEN /\ resp' = Response("stop", tid, "none", None)
            /\ UNCHANGED calls
       ELSE /\ Cardinality(calls) < MaxInFlight
            /\ \A c \in calls : ~(c.op = "stop" /\ c.tid = tid)
            /\ calls' = calls \cup {Call("stop", tid, "kill", 0, TRUE, FALSE)}
            /\ UNCHANGED resp
    /\ UNCHANGED <<config, clock, training_jobs, monitors, gw>>

\* The kill returns.
StopReturn(c) ==
    /\ c \in calls /\ c.op = "stop"
    /\ calls' = calls \ {c}
    /\ \E result \in ExecResults(environment, "kill", logCatalogue) :
          /\ gw' = Exchange("kill", c.tid, result, FALSE)
          /\ IF result.raised
             THEN /\ resp' = Response("stop", c.tid, "gateway_error", None)
                  /\ UNCHANGED training_jobs
             ELSE /\ training_jobs' = [training_jobs EXCEPT
                         ![c.tid] = StopResult(@, result, clock)]
                  /\ resp' = Response("stop", c.tid, "none", None)
    /\ UNCHANGED <<config, clock, monitors>>

----------------------------------------------------------------------------
(* The Monitor (_monitor_training) and the mock monitor *)

MonitorTasks == {<<tid, i>> : tid \in TrainingIds, i \in 1..2}

HasTask(tid, i) == tid \in DOMAIN monitors /\ i \in 1..Len(monitors[tid])

\* A variant whose loop does not look at the status.
MonitorLoopHeadBlind(job) == IF job.pid # "" THEN "probe" ELSE "tail"

\* Where the head of the while loop sends the task.
MonitorLoopHead(job) ==
    IF job.status \in TerminalStatuses THEN "exited"
    ELSE IF job.pid # "" THEN "probe"
    ELSE "tail"

\* The head of the while loop, run when the task starts and after each sleep.
MonitorWake(tid, i) ==
    /\ HasTask(tid, i)
    /\ monitors[tid][i].kind = "remote"
    /\ monitors[tid][i].pc \in {"ready", "sleep30", "sleep60"}
    /\ monitors' = SetTask(monitors, tid, i,
           MonitorTask("remote", MonitorLoopHead(training_jobs[tid]), 0))
    /\ UNCHANGED <<config, clock, training_jobs, calls, resp, gw>>

\* ps -p returns.
MonitorProbeReturn(tid, i) ==
    /\ HasTask(tid, i)
    /\ monitors[tid][i].pc = "probe"
    /\ \E result \in ExecResults(environment, "ps", logCatalogue) :
          /\ gw' = Exchange("ps", tid, result, FALSE)
          /\ IF result.raised
             THEN /\ monitors' = SetTask(monitors, tid, i,
                         MonitorTask("remote", "sleep60", 0))
                  /\ UNCHANGED training_jobs
             ELSE IF ~result.success
             THEN /\ training_jobs' = [training_jobs EXCEPT
                         ![tid] = ProbeDead(@, clock)]
                  /\ monitors' = SetTask(monitors, tid, i,
                         MonitorTask("remote", "exited", 0))
             ELSE /\ monitors' = SetTask(monitors, tid, i,
                         MonitorTask("remote", "tail", 0))
                  /\ UNCHANGED training_jobs
    /\ UNCHANGED <<config, clock, calls, resp>>

\* The Monitor's tail returns: refresh, then sleep 30 seconds.
MonitorTailReturn(tid, i) ==
    /\ HasTask(tid, i)
    /\ monitors[tid][i].pc = "tail"
    /\ \E result \in ExecResults(environment, "tail", logCatalogue) :
          /\ gw' = Exchange("tail", tid, result, FALSE)
          /\ training_jobs' = [training_jobs EXCEPT
                 ![tid] = UpdateTrainingLogs(@, result, clock)]
    /\ monitors' = SetTask(monitors, tid, i, MonitorTask("remote", "sleep30", 0))
    /\ UNCHANGED <<config, clock, calls, resp>>

\* The mock monitor runs until its next sleep, or to its end.
MockMonitorStep(tid, i) ==
    /\ OthersRun
    /\ HasTask(tid, i)
    /\ monitors[tid][i].kind = "mock"
    /\ monitors[tid][i].pc \in {"ready", "sleep5"}
    /\ LET e   == monitors[tid][i].epoch
           job == training_jobs[tid]
       IN  IF e <= job.total_epochs /\ job.status = RUNNING
           THEN /\ training_jobs' = [training_jobs EXCEPT
                       ![tid] = MockEpoch(job, e, clock)]
                /\ monitors' = SetTask(monitors, tid, i,
                       MonitorTask("mock", "sleep5", e + 1))
           ELSE /\ training_jobs' = [training_jobs EXCEPT
                       ![tid] = MockFinish(job, clock)]
                /\ monitors' = SetTask(monitors, tid, i,
                       MonitorTask("mock", "exited", e))
    /\ UNCHANGED <<config, clock, calls, resp, gw>>

\* Time passes.
Tick ==
    /\ OthersRun
    /\ clock < MaxClock
    /\ clock' = clock + 1
    /\ UNCHANGED <<config, training_jobs, monitors, calls, resp, gw>>

JobNext ==
    \/ \E tid \in TrainingIds : \E n \in 0..MaxData : \E e \in epochChoices :
           StartCall(tid, n, e)
    \/ \E c \in calls : StartTransferReturn(c)
    \/ \E c \in calls : StartLaunchReturn(c)
    \/ \E tid \in QueryIds : GetStatusCall(tid)
    \/ \E c \in calls : GetStatusReturn(c)
    \/ \E tid \in QueryIds : StopCall(tid)
    \/ \E c \in calls : StopReturn(c)
    \/ \E t \in MonitorTasks : MonitorWake(t[1], t[2])
    \/ \E t \in MonitorTasks : MonitorProbeReturn(t[1], t[2])
    \/ \E t \in MonitorTasks : MonitorTailReturn(t[1], t[2])
    \/ \E t \in MonitorTasks : MockMonitorStep(t[1], t[2])
    \/ Tick

Spec == JobInit /\ [][JobNext]_vars

\* The event loop runs every task that is ready, and every awaited gateway
\* command returns.  The mock monitor is ready whenever no handler is in
\* the middle of its (non-suspending) development call.
MonitorFairness ==
    /\ WF_vars(\E t \in MonitorTasks : MonitorWake(t[1], t[2]))
    /\ WF_vars(\E t \in MonitorTasks : MonitorProbeReturn(t[1], t[2]))
    /\ WF_vars(\E t \in MonitorTasks : MonitorTailReturn(t[1], t[2]))
    /\ SF_vars(\E t \in MonitorTasks : MockMonitorStep(t[1], t[2]))
    /\ WF_vars(\E c \in calls : StartTransferReturn(c))
    /\ WF_vars(\E c \in calls : StartLaunchReturn(c))
    /\ WF_vars(\E c \in calls : GetStatusReturn(c))
    /\ WF_vars(\E c \in calls : StopReturn(c))

\* The log tails of the fair model: nothing yet, and the finished script's.
LeanLogs ==
    {"",
     "1/2Epoch loss: 0.5\nINFO:__main__:Training completed. Model saved to /opt/models/trained/reasoning_enhancer_t1\n"}

\* Either deployment, with those tails.
FairInit == \E env \in Environments : Settled(env, LeanLogs, {2})

FairSpec == FairInit /\ [][JobNext]_vars /\ MonitorFairness

\* GET /model/versions: the development build answers at once, otherwise
\* the listing command is awaited.
ListCall ==
    /\ OthersRun
    /\ \A c \in calls : c.op # "list"
    /\ Cardinality(calls) < MaxInFlight
    /\ IF environment = "development"
       THEN /\ resp' = Response("list", "", "none", MockVersions)
            /\ UNCHANGED calls
       ELSE /\ calls' = calls \cup {Call("list", "", "ls", 0, TRUE, FALSE)}
            /\ UNCHANGED resp
    /\ UNCHANGED <<config, clock, training_jobs, monitors, gw>>

\* The listing command returns.
ListReturn(c) ==
    /\ c \in calls /\ c.op = "list"
    /\ calls' = calls \ {c}
    /\ \E result \in ExecResults(environment, "ls", logCatalogue) :
          /\ gw' = Exchange("ls", "", result, FALSE)
          /\ resp' = Response("list", "", "none", ListedVersions(result))
    /\ UNCHANGED <<config, clock, training_jobs, monitors>>

\* Either deployment.
VersionsInit == \E env \in Environments : Settled(env, BaseLogs, {2})

\* Listings while jobs are being started.
VersionsNext ==
    \/ ListCall
    \/ \E c \in calls : ListReturn(c)
    \/ \E tid \in TrainingIds : \E n \in 0..MaxData : \E e \in epochChoices :
           StartCall(tid, n, e)
    \/ \E c \in calls : StartTransferReturn(c)
    \/ \E c \in calls : StartLaunchReturn(c)
    \/ Tick

VersionsSpec == VersionsInit /\ [][VersionsNext]_vars

\* The steps of a remote deployment: everything but the mock monitor.
ParseNext ==
    \/ \E tid \in TrainingIds : \E n \in 0..MaxData : \E e \in epochChoices :
           StartCall(tid, n, e)
    \/ \E c \in calls : StartTransferReturn(c)
    \/ \E c \in calls : StartLaunchReturn(c)
    \/ \E tid \in QueryIds : GetStatusCall(tid)
    \/ \E c \in calls : GetStatusReturn(c)
    \/ \E tid \in QueryIds : StopCall(tid)
    \/ \E c \in calls : StopReturn(c)
    \/ \E t \in MonitorTasks : MonitorWake(t[1], t[2])
    \/ \E t \in MonitorTasks : MonitorProbeReturn(t[1], t[2])
    \/ \E t \in MonitorTasks : MonitorTailReturn(t[1], t[2])
    \/ Tick

ParseSpec == ParseInit /\ [][ParseNext]_vars

\* The steps of a remote deployment whose jobs nobody stops.
BatchNext ==
    \/ \E tid \in TrainingIds : \E n \in 0..MaxData : \E e \in epochChoices :
           StartCall(tid, n, e)
    \/ \E c \in calls : StartTransferReturn(c)
    \/ \E c \in calls : StartLaunchReturn(c)
    \/ \E tid \in QueryIds : GetStatusCall(tid)
    \/ \E c \in calls : GetStatusReturn(c)
    \/ \E t \in MonitorTasks : MonitorWake(t[1], t[2])
    \/ \E t \in MonitorTasks : MonitorProbeReturn(t[1], t[2])
    \/ \E t \in MonitorTasks : MonitorTailReturn(t[1], t[2])
    \/ Tick

BatchSpec == BatchInit /\ [][BatchNext]_vars

\* The training script writes its next burst of lines.
LogGrows ==
    /\ remote.grown < Len(WrittenBursts)
    /\ remote' = [remote EXCEPT !.grown = remote.grown + 1]
    /\ UNCHANGED <<settings, clock, training_jobs, monitors, calls, resp, gw>>

\* Whether a tail command of the Monitor ("monitor") or of a status request
\* ("status") has been issued and has not returned.
TailInFlight(who) ==
    IF who = "status" THEN \E c \in calls : c.op = "status"
    ELSE \E t \in MonitorTasks :
            HasTask(t[1], t[2]) /\ monitors[t[1]][t[2]].pc = "tail"

\* The remote side runs a tail command in flight: it reads the log as it
\* is at that moment; its output travels back for some time.
RemoteRunsTail(who) ==
    /\ TailInFlight(who)
    /\ remote.read[who] = None
    /\ remote' = [remote EXCEPT !.read[who] = <<remote.grown>>]
    /\ UNCHANGED <<settings, clock, training_jobs, monitors, calls, resp, gw>>

\* What a tail command that the remote side has run returns.
TailResult(who) == ExecResult(FALSE, TRUE, TailOutput(remote.read[who][1]))

\* The tail of a status request returns with what it read: the record is
\* refreshed and its snapshot sent.
GrownStatusReturn(c) ==
    /\ c \in calls /\ c.op = "status"
    /\ remote.read["status"] # None
    /\ calls' = calls \ {c}
    /\ gw' = Exchange("tail", c.tid, TailResult("status"), c.first)
    /\ training_jobs' = [training_jobs EXCEPT
           ![c.tid] = UpdateTrainingLogs(@, TailResult("status"), clock)]
    /\ resp' = Response("status", c.tid, "none",
                        StatusResponse(c.tid, training_jobs'[c.tid]))
    /\ remote' = [remote EXCEPT !.read["status"] = None]
    /\ UNCHANGED <<settings, clock, monitors>>

\* The Monitor's tail returns with what it read: refresh, then sleep 30
\* seconds.
GrownMonitorTailReturn(tid, i) ==
    /\ HasTask(tid, i)
    /\ monitors[tid][i].pc = "tail"
    /\ remote.read["monitor"] # None
    /\ gw' = Exchange("tail", tid, TailResult("monitor"), FALSE)
    /\ training_jobs' = [training_jobs EXCEPT
           ![tid] = UpdateTrainingLogs(@, TailResult("monitor"), clock)]
    /\ monitors' = SetTask(monitors, tid, i, MonitorTask("remote", "sleep30", 0))
    /\ remote' = [remote EXCEPT !.read["monitor"] = None]
    /\ UNCHANGED <<settings, clock, calls, resp>>

\* The number of epochs of the jobs whose log grows.
GrownEpochs == {5}

\* A deployment whose commands reach the remote side.
GrownInit == Settled("production", {""}, GrownEpochs)

\* A job started, watched by its Monitor and asked for by clients while
\* its script writes the log.
GrownNext ==
    \/ \E tid \in TrainingIds : \E n \in 0..MaxData : \E e \in epochChoices :
           StartCall(tid, n, e)
    \/ \E c \in calls : StartTransferReturn(c)
    \/ \E c \in calls : StartLaunchReturn(c)
    \/ \E tid \in QueryIds : GetStatusCall(tid)
    \/ \E c \in calls : GrownStatusReturn(c)
    \/ \E t \in MonitorTasks : MonitorWake(t[1], t[2])
    \/ \E t \in MonitorTasks : MonitorProbeReturn(t[1], t[2])
    \/ \E t \in MonitorTasks : GrownMonitorTailReturn(t[1], t[2])
    \/ \E who \in {"monitor", "status"} : RemoteRunsTail(who)
    \/ LogGrows
    \/ Tick

GrownSpec == GrownInit /\ [][GrownNext]_vars

\* The steps of a development deployment: no transfer, no launch, no
\* Monitor, only the mock monitor.
MockNext ==
    \/ \E tid \in TrainingIds : \E n \in 0..MaxData : \E e \in epochChoices :
           StartCall(tid, n, e)
    \/ \E tid \in QueryIds : GetStatusCall(tid)
    \/ \E c \in calls : GetStatusReturn(c)
    \/ \E tid \in QueryIds : StopCall(tid)
    \/ \E c \in calls : StopReturn(c)
    \/ \E t \in MonitorTasks : MockMonitorStep(t[1], t[2])
    \/ Tick

MockSpec == MockInit /\ [][MockNext]_vars

----------------------------------------------------------------------------
(* Streaming enhancement: main.enhance_prompt_stream.generate_stream,      *)
(* ModelTrainer.enhance_prompt_stream and                                  *)
(* EC2Connector.generate_response_stream.  One step runs the generators    *)
(* from one yield to the next.  Nothing between the trainer's outer try   *)
(* and its handler raises for a request the HTTP handler accepts (the      *)
(* gateway's exceptions stay inside the inner try), so no error event is   *)
(* ever produced.                                                          *)

\* The most chunks one upstream response holds.
MaxChunks == 2

\* A variant whose status events all carry progress 0.
StatusEventAtZero(message, progress) ==
    [type |-> "status", text |-> message, progress |-> RatOfInt(0)]

StatusEvent(message, progress) ==
    [type |-> "status", text |-> message, progress |-> RatOfInt(progress)]

ContentEvent(content, progress) ==
    [type |-> "content", text |-> content, progress |-> progress]

\* A variant that closes the sequence with one more status event.
ClosingStatusEvent == [type |-> "status", text |-> "", progress |-> None]

\* {'type': 'complete'}: no message and no progress.
CompleteEvent == [type |-> "complete", text |-> "", progress |-> None]

\* min(90, 20 + (chunk.get("progress", 0) * 0.7))
UpstreamProgress(chunkProgress) ==
    RatMin(RatOfInt(90), RatAdd(RatOfInt(20), RatMul(chunkProgress, Rat(7, 10))))

\* The development build's chunk i of n: progress (i + 1) / len(words) * 100,
\* with i counted from 1 here.
MockChunkProgress(i, n) == Rat(i * 100, n)

\* chunk_size = max(1, len(words) // 10)
ChunkSize(words) == Max({1, Len(words) \div 10})

\* A variant that puts no space between two chunks.
FallbackChunkTextUnspaced(words, i) ==
    Join(SubSeq(words, i + 1, Min({i + ChunkSize(words), Len(words)})), " ")

\* The fallback chunk that starts after the first i words.
FallbackChunkText(words, i) ==
    (IF i > 0 THEN " " ELSE "")
        \o Join(SubSeq(words, i + 1, Min({i + ChunkSize(words), Len(words)})), " ")

\* A variant whose fallback progress starts again from zero.
FallbackProgressFromZero(words, i) ==
    RatMin(RatOfInt(90), Rat(i * 60, Len(words)))

\* min(90, 30 + ((i / len(words)) * 60))
FallbackProgress(words, i) ==
    RatMin(RatOfInt(90), RatAdd(RatOfInt(30), Rat(i * 60, Len(words))))

\* What the upstream generator hands over next outside development: a
\* chunk of the response, the chunk made of a transport error while
\* reading (it ends the response), a failure chunk (the call was refused,
\* or a line was no JSON object), or the end of the response.
UpstreamOutcomes(st) ==
    IF ~st.open THEN {"end"}
    ELSE {"failure", "end"}
         \cup (IF st.i < MaxChunks THEN {"chunk", "read_error"} ELSE {})

\* POST /prompt/enhance/stream: generate_stream sends its first event.
StreamRequest(prompt, enhancement_type) ==
    /\ stream.pc = "idle"
    /\ stream' = Stream("analyze", prompt, enhancement_type, 0, FALSE, <<>>)
    /\ events' = <<StatusEvent("Starting enhancement...", 0)>>
    /\ UNCHANGED <<environment, jobState, enhance>>

StreamAnalyze ==
    /\ stream.pc = "analyze"
    /\ events' = Append(events,
           StatusEvent("Analyzing prompt for " \o stream.enhancement_type
                           \o " enhancement...", 10))
    /\ stream' = [stream EXCEPT !.pc = "connect"]
    /\ UNCHANGED <<environment, jobState, enhance>>

StreamConnect ==
    /\ stream.pc = "connect"
    /\ events' = Append(events, StatusEvent("Connecting to AI model...", 20))
    /\ stream' = [stream EXCEPT !.pc = "upstream", !.i = 0, !.open = TRUE]
    /\ UNCHANGED <<environment, jobState, enhance>>

\* words = mock_response.split(), made when the upstream generator starts.
MockWords(st) ==
    IF st.i = 0
    THEN SplitWs(MockStreamResponse(
             EnhancedPromptRequest(st.prompt, st.enhancement_type)))
    ELSE st.words

\* The development build's upstream: the mock response word by word, then
\* the loop's else branch.
StreamMockChunk ==
    /\ stream.pc = "upstream"
    /\ environment = "development"
    /\ LET words == MockWords(stream)
       IN  IF stream.i < Len(words)
           THEN /\ events' = Append(events,
                       ContentEvent(words[stream.i + 1] \o " ",
                           UpstreamProgress(MockChunkProgress(stream.i + 1, Len(words)))))
                /\ stream' = [stream EXCEPT !.i = stream.i + 1, !.words = words]
           ELSE /\ events' = Append(events, StatusEvent("Enhancement completed!", 100))
                /\ stream' = [stream EXCEPT !.pc = "closing"]
    /\ UNCHANGED <<environment, jobState, enhance>>

\* The upstream of the Ollama API: a success chunk is forwarded, a failure
\* chunk breaks out of the loop, the end takes the loop's else branch.
StreamUpstreamChunk ==
    /\ stream.pc = "upstream"
    /\ environment # "development"
    /\ \E outcome \in UpstreamOutcomes(stream) :
          CASE outcome = "chunk" ->
                 \E text \in ChunkTexts :
                    /\ events' = Append(events,
                           ContentEvent(text, UpstreamProgress(RatOfInt(0))))
                    /\ stream' = [stream EXCEPT !.i = stream.i + 1]
            [] outcome = "read_error" ->
                 /\ events' = Append(events,
                        ContentEvent("", UpstreamProgress(RatOfInt(0))))
                 /\ stream' = [stream EXCEPT !.i = stream.i + 1, !.open = FALSE]
            [] outcome = "failure" ->
                 /\ stream' = [stream EXCEPT !.pc = "fallback"]
                 /\ UNCHANGED events
            [] outcome = "end" ->
                 /\ events' = Append(events, StatusEvent("Enhancement completed!", 100))
                 /\ stream' = [stream EXCEPT !.pc = "closing"]
    /\ UNCHANGED <<environment, jobState, enhance>>

StreamFallbackAnnounce ==
    /\ stream.pc = "fallback"
    /\ events' = Append(events, StatusEvent("Using fallback enhancement method...", 30))
    /\ stream' = [stream EXCEPT !.pc = "chunks", !.i = 0]
    /\ UNCHANGED <<environment, jobState, enhance>>

\* words = enhanced_result.split(), made after the fallback is announced.
FallbackWords(st) ==
    IF st.i = 0
    THEN SplitWs(BasicEnhancement(st.prompt, st.enhancement_type))
    ELSE st.words

\* The fallback text in chunks, then the final status.
StreamFallbackChunk ==
    /\ stream.pc = "chunks"
    /\ LET words == FallbackWords(stream)
       IN  IF stream.i < Len(words)
           THEN /\ events' = Append(events,
                       ContentEvent(FallbackChunkText(words, stream.i),
                                    FallbackProgress(words, stream.i)))
                /\ stream' = [stream EXCEPT !.i = stream.i + ChunkSize(words),
                                             !.words = words]
           ELSE /\ events' = Append(events, StatusEvent("Enhancement completed!", 100))
                /\ stream' = [stream EXCEPT !.pc = "closing"]
    /\ UNCHANGED <<environment, jobState, enhance>>

\* The trainer's generator has ended: generate_stream sends its last event.
StreamComplete ==
    /\ stream.pc = "closing"
    /\ events' = Append(events, CompleteEvent)
    /\ stream' = [stream EXCEPT !.pc = "done"]
    /\ UNCHANGED <<environment, jobState, enhance>>

StreamNext ==
    \/ \E prompt \in Prompts : \E t \in EnhancementTypes : StreamRequest(prompt, t)
    \/ StreamAnalyze
    \/ StreamConnect
    \/ StreamMockChunk
    \/ StreamUpstreamChunk
    \/ StreamFallbackAnnounce
    \/ StreamFallbackChunk
    \/ StreamComplete

StreamSpec == JobInit /\ [][StreamNext]_vars

----------------------------------------------------------------------------
(* Non-streaming enhancement: main.enhance_prompt and                      *)
(* ModelTrainer.enhance_prompt                                             *)

\* POST /prompt/enhance: the request text is built and generate_response
\* awaited.
EnhanceCall(prompt, enhancement_type) ==
    /\ enhance.pc \in {"idle", "done"}
    /\ enhance' = Enhance("generate", prompt, enhancement_type, None, None)
    /\ UNCHANGED <<environment, jobState, stream, events>>

\* generate_response returns, and the request is answered.
EnhanceReturn ==
    /\ enhance.pc = "generate"
    /\ \E result \in GenerateResults(environment,
             EnhancedPromptRequest(enhance.prompt, enhance.enhancement_type)) :
          enhance' = [enhance EXCEPT
              !.pc = "done",
              !.generated = result,
              !.outcome = EnhancePromptResult(enhance.prompt,
                              enhance.enhancement_type, result)]
    /\ UNCHANGED <<environment, jobState, stream, events>>

EnhanceNext ==
    \/ \E prompt \in Prompts : \E t \in EnhancementTypes : EnhanceCall(prompt, t)
    \/ EnhanceReturn

EnhanceSpec == JobInit /\ [][EnhanceNext]_vars

----------------------------------------------------------------------------
(* Properties of the job registry, checked under Spec *)

Job(t) == training_jobs[t]

\* The step ends a request of kind op that awaited a gateway command.
Returns(c, op) == c \in calls /\ c.op = op /\ c \notin calls'

\* The step answers a stop request for t: at once, or when its kill returns.
StopAnswered(t) ==
    /\ resp'.op = "stop" /\ resp'.tid = t
    /\ resp' # resp \/ \E c \in calls : Returns(c, "stop")

IsStatusReply(r) == r.op = "status" /\ r.error = "none"

\* What the refresh finds in the output: a completion line, or a line the
\* epoch rule reads.
MovesJob(result) ==
    /\ ~result.raised /\ result.success
    /\ ~LogReadings[result.stdout].blank
    /\ \/ LogReadings[result.stdout].completed
       \/ \E i \in DOMAIN LogReadings[result.stdout].epochs :
             LogReadings[result.stdout].epochs[i] # <<>>

AsCreated(job) ==
    /\ job.status = RUNNING
    /\ job.progress = RatOfInt(0)
    /\ job.current_epoch = 0

\* C1: once a job's status is Completed, Failed or Stopped, no step of any
\* request or Monitor changes it to another value.
TerminalStatusNeverChanges ==
    [][\A t \in DOMAIN training_jobs :
          Job(t).status \in TerminalStatuses
              => training_jobs'[t].status = Job(t).status]_vars

\* C2: once a status request has returned a terminal status for a job, the
\* next status request answered for that job, with no other request answered
\* in between, returns the same status.
TerminalStatusReadAgain ==
    [][(/\ IsStatusReply(resp) /\ IsStatusReply(resp')
        /\ resp'.tid = resp.tid
        /\ resp.body.status \in TerminalStatuses)
           => resp'.body.status = resp.body.status]_vars

\* C3: in every state, a job whose status is Completed has progress 100, in
\* the registry and in the snapshot a status request returned.
CompletedMeansFullProgress ==
    /\ \A t \in DOMAIN training_jobs :
          Job(t).status = COMPLETED => Job(t).progress = RatOfInt(100)
    /\ IsStatusReply(resp) /\ resp.body.status = COMPLETED
          => resp.body.progress = RatOfInt(100)

\* C4 as stated: a status request that directly follows the successful start
\* of a job returns status Running, progress 0 and current epoch 0.
StatusRightAfterStart ==
    [][\A c \in calls :
          Returns(c, "status") /\ c.first
              => /\ IsStatusReply(resp')
                 /\ AsCreated(resp'.body)]_vars

\* C4: a status request that directly follows the successful start of a job
\* returns status Running, progress 0 and current epoch 0, provided no
\* Monitor step has changed the record before the request's log tail
\* returns, and that tail holds neither a completion line nor a line the
\* epoch rule reads.
StatusRightAfterStartOnQuietLog ==
    [][\A c \in calls :
          (/\ Returns(c, "status") /\ c.first
           /\ AsCreated(Job(c.tid))
           /\ ~MovesJob(gw'.result))
              => /\ IsStatusReply(resp')
                 /\ AsCreated(resp'.body)]_vars

StatusRightAfterStartSeen ==
    /\ IsStatusReply(resp) /\ AsCreated(resp.body)
    /\ gw.kind = "tail" /\ gw.first
    /\ gw.result.success /\ ~LogReadings[gw.result.stdout].blank

\* C5 as stated: a stop request answered for a job whose status is Running
\* leaves it Stopped, and one answered for a job already Stopped leaves it
\* Stopped; neither fails.
StopAlwaysStops ==
    [][\A t \in DOMAIN training_jobs :
          StopAnswered(t) /\ Job(t).status \in {RUNNING, STOPPED}
              => /\ training_jobs'[t].status = STOPPED
                 /\ resp'.error = "none"]_vars

\* C5: a stop request whose kill command reports success leaves a Running
\* job Stopped; a stop request answered for a job already Stopped leaves it
\* Stopped whatever the kill reports; and a stop request for a known job
\* fails only when the gateway raises.
StopStopsWhenKillSucceeds ==
    [][\A t \in DOMAIN training_jobs :
          StopAnswered(t)
              => /\ (/\ Job(t).status = RUNNING
                     /\ \E c \in calls : Returns(c, "stop")
                     /\ gw'.result.success)
                        => training_jobs'[t].status = STOPPED
                 /\ Job(t).status = STOPPED
                        => training_jobs'[t].status = STOPPED
                 /\ resp'.error # "none"
                        => (\E c \in calls : Returns(c, "stop")) /\ gw'.result.raised]_vars

\* A second stop has been answered: the job is Stopped, and the kill that
\* returned last was refused.
StoppedTwiceSeen ==
    \E t \in DOMAIN training_jobs :
        /\ Job(t).status = STOPPED
        /\ resp = Response("stop", t, "none", None)
        /\ gw.kind = "kill" /\ ~gw.result.raised /\ ~gw.result.success

\* C6: a status or stop request that names no job of the registry is
\* answered not-found, sends no gateway command, and leaves the registry and
\* the Monitors as they were.
UnknownIdTouchesNothing ==
    [][\A tid \in QueryIds :
          ~Known(tid) /\ (GetStatusCall(tid) \/ StopCall(tid))
              => /\ resp'.error = "not_found" /\ resp'.tid = tid
                 /\ UNCHANGED <<training_jobs, monitors, calls, gw>>]_vars

UnknownIdSeen ==
    /\ resp.error = "not_found" /\ resp.tid = "unknown"
    /\ DOMAIN training_jobs # {}

\* C7: when the launch command reports failure, the start request is
\* answered with an error, no record is registered for its id, and no
\* Monitor is spawned.
LaunchFailureRegistersNothing ==
    [][\A c \in calls :
          (/\ Returns(c, "start") /\ c.pc = "launch"
           /\ ~gw'.result.raised /\ ~gw'.result.success)
              => /\ resp'.op = "start" /\ resp'.tid = c.tid
                 /\ resp'.error # "none"
                 /\ c.tid \notin DOMAIN training_jobs'
                 /\ UNCHANGED <<training_jobs, monitors>>]_vars

LaunchFailureSeen ==
    /\ resp = Response("start", "t1", "launch_failed", None)
    /\ gw.kind = "launch" /\ ~gw.result.success
    /\ "t1" \notin DOMAIN training_jobs
    /\ "t1" \notin DOMAIN monitors

\* C8: when a transfer command of a start request has reported failure, the
\* request registers no job.
FailedTransferRegistersNothing ==
    [][\A c \in calls :
          (/\ Returns(c, "start") /\ c.pc = "launch"
           /\ ~c.staged)
              => c.tid \notin DOMAIN training_jobs']_vars

----------------------------------------------------------------------------
(* Properties of the event sequence, checked under StreamSpec *)

IsTerminalEvent(e) == e.type \in {"complete", "error"}

ContentAt == {i \in 1..Len(events) : events[i].type = "content"}

\* C9: no event follows a complete or error event, and the sequence of a
\* request that has been served to its end ends with one; so it holds
\* exactly one, and no complete event follows an error event.
ExactlyOneTerminalEvent ==
    /\ \A i \in 1..Len(events) : IsTerminalEvent(events[i]) => i = Len(events)
    /\ stream.pc = "done"
          => events # <<>> /\ IsTerminalEvent(events[Len(events)])

\* A request served to its end through the fallback, after upstream content.
FallbackServedSeen ==
    /\ stream.pc = "done"
    /\ \E i \in ContentAt : \E j \in 1..Len(events) :
          /\ i < j
          /\ events[j].text = "Using fallback enhancement method..."

\* C10: the progress values of the content events of one sequence never
\* decrease, across the switch from upstream chunks to fallback chunks too.
ContentProgressNeverDecreases ==
    \A i \in ContentAt : \A j \in ContentAt :
        i < j => RatLeq(events[i].progress, events[j].progress)

\* Upstream content at progress 20, then fallback content beyond 30.
ProgressAcrossFallbackSeen ==
    \E i \in ContentAt : \E j \in ContentAt :
        /\ i < j
        /\ events[i].progress = RatOfInt(20)
        /\ RatLt(RatOfInt(30), events[j].progress)
        /\ \E k \in (i + 1)..(j - 1) :
              events[k].text = "Using fallback enhancement method..."

----------------------------------------------------------------------------
(* Properties of the non-streaming enhancement, checked under EnhanceSpec *)

\* The category's template with the prompt in the place of its one
\* replacement field.
TemplateAround(prompt, enhancement_type) ==
    LET parts == SplitOn(EnhancementTemplate(enhancement_type), "{prompt}")
    IN  parts[1] \o prompt \o parts[2]

EnhanceFellBack ==
    \/ enhance.generated.raised
    \/ ~enhance.generated.success
    \/ ~enhance.generated.is_text

\* C11: for every prompt and each of the five categories, a request whose
\* generate call reports failure returns exactly the category's fallback
\* template with the prompt substituted.
FailureReturnsTemplate ==
    (/\ enhance.pc = "done"
     /\ ~enhance.generated.raised /\ ~enhance.generated.success)
        => /\ enhance.enhancement_type \in EnhancementTypes
           /\ Len(SplitOn(EnhancementTemplate(enhance.enhancement_type),
                          "{prompt}")) = 2
           /\ enhance.outcome =
                 Returned(TemplateAround(enhance.prompt, enhance.enhancement_type))

FailureReturnsTemplateSeen ==
    /\ enhance.pc = "done"
    /\ ~enhance.generated.raised /\ ~enhance.generated.success
    /\ enhance.prompt = "plan  a\ttrip " /\ enhance.enhancement_type = "logic"
    /\ Contains(enhance.outcome.text, "plan  a\ttrip ")

\* The end of the last occurrence of the delimiter in a text, 0 when the
\* text does not hold it.
LastDelimiterEnd(text) ==
    LET at == Occurrences(text, "Enhanced version:")
    IN  IF at = {} THEN 0
        ELSE (CHOOSE i \in at : \A j \in at : j <= i) + Len("Enhanced version:") - 1

\* C34: when generate succeeds with a text, the request returns the
\* trimmed text that follows the last occurrence of "Enhanced version:" in
\* the trimmed response (the whole trimmed response when the delimiter is
\* absent), and the fallback template whenever that text is empty.
SuccessReturnsTextAfterLastDelimiter ==
    (/\ enhance.pc = "done"
     /\ ~enhance.generated.raised
     /\ enhance.generated.success /\ enhance.generated.is_text)
        => LET trimmed == Strip(enhance.generated.response)
               kept == Strip(SubSeq(trimmed, LastDelimiterEnd(trimmed) + 1,
                                    Len(trimmed)))
           IN  enhance.outcome =
                  Returned(IF kept = ""
                           THEN TemplateAround(enhance.prompt,
                                               enhance.enhancement_type)
                           ELSE kept)

DelimiterTwiceSeen ==
    /\ enhance.pc = "done"
    /\ enhance.generated.success /\ enhance.generated.is_text
    /\ Len(SplitOn(enhance.generated.response, "Enhanced version:")) = 3
    /\ enhance.outcome.text = "second"

----------------------------------------------------------------------------
(* Properties of the Monitor, checked under Spec and FairSpec *)

TerminalJob(t) == Known(t) /\ Job(t).status \in TerminalStatuses

\* Every task created for t has left its loop.
MonitorsExited(t) ==
    /\ t \in DOMAIN monitors
    /\ \A i \in 1..Len(monitors[t]) : monitors[t][i].pc = "exited"

\* C13: under fair scheduling, once a job's status is Completed, Failed or
\* Stopped, its Monitor eventually leaves its loop for good, and so sends
\* no gateway command for the job any more.
TerminalJobMonitorExits ==
    \A t \in TrainingIds : [](TerminalJob(t) => <>[]MonitorsExited(t))

\* The Monitor of a job that a stop request ended has left its loop.
StoppedJobMonitorExitedSeen ==
    \E t \in DOMAIN training_jobs :
        /\ Job(t).status = STOPPED
        /\ MonitorsExited(t)
        /\ monitors[t][1].kind = "remote"

\* The step is the return of the liveness probe of task i of job t.
ProbeReturns(t, i) ==
    /\ HasTask(t, i)
    /\ monitors[t][i].pc = "probe"
    /\ monitors'[t][i].pc # "probe"

\* C14: when the liveness probe of a Monitor cycle returns negative, the
\* same step sets the job's status to Failed and ends the Monitor, without
\* a log refresh and without another probe; and a job that is Failed stays
\* Failed.
NegativeProbeFailsForGood ==
    [][/\ \A t \in DOMAIN monitors : \A i \in 1..Len(monitors[t]) :
             (/\ ProbeReturns(t, i)
              /\ ~gw'.result.raised /\ ~gw'.result.success)
                 => /\ training_jobs'[t].status = FAILED
                    /\ training_jobs'[t].logs = Job(t).logs
                    /\ monitors'[t][i].pc = "exited"
       /\ \A t \in DOMAIN training_jobs :
             Job(t).status = FAILED => training_jobs'[t].status = FAILED]_vars

\* C15: the step that answers a status request for a known job is the
\* return of the one log tail the request asked for; the record after the
\* step is the refreshed one, and the snapshot sent shows status, progress
\* and logs of the record after the step.  The step that takes the request
\* in touches neither the record nor the gateway.
StatusReadsAfterOneRefresh ==
    [][/\ \A c \in calls :
             Returns(c, "status")
                => /\ c.pc = "tail"
                   /\ gw'.kind = "tail" /\ gw'.tid = c.tid
                   /\ training_jobs'[c.tid] =
                         UpdateTrainingLogs(Job(c.tid), gw'.result, clock)
                   /\ IsStatusReply(resp') /\ resp'.tid = c.tid
                   /\ resp'.body.status = training_jobs'[c.tid].status
                   /\ resp'.body.progress = training_jobs'[c.tid].progress
                   /\ resp'.body.logs = training_jobs'[c.tid].logs
       /\ (\E c \in calls' \ calls : c.op = "status")
             => UNCHANGED <<training_jobs, gw, resp>>]_vars

\* A snapshot that shows what the refresh of its own request has read.
RefreshedSnapshotSeen ==
    /\ IsStatusReply(resp)
    /\ gw.kind = "tail" /\ gw.result.success
    /\ gw.result.stdout = "1/2Epoch loss: 0.5\n"
    /\ resp.body.logs = <<"1/2Epoch loss: 0.5">>
    /\ resp.body.current_epoch = 1

----------------------------------------------------------------------------
(* The log parser, under ParseSpec *)

\* The step is a log refresh of job t: the tail of a status request or of
\* a Monitor cycle returns.
Refreshes(t) ==
    /\ gw'.kind = "tail" /\ gw'.tid = t
    /\ \/ \E c \in calls : Returns(c, "status") /\ c.tid = t
       \/ \E i \in 1..2 : /\ HasTask(t, i)
                          /\ monitors[t][i].pc = "tail"
                          /\ monitors'[t][i].pc # "tail"

\* The refresh of the step read a batch of lines.
ReadsBatch(t) ==
    /\ Refreshes(t)
    /\ ~gw'.result.raised /\ gw'.result.success
    /\ ~LogReadings[gw'.result.stdout].blank

\* The number c of a line of the form "Epoch c/t ...": <<c>>, or <<>> for a
\* line of another form.
StatedEpoch(log) ==
    IF /\ Len(log) > 6 /\ SubSeq(log, 1, 6) = "Epoch "
       /\ Contains(log, "/")
       /\ AllDigits(SubSeq(log, 7, Min(Occurrences(log, "/")) - 1))
    THEN <<ParseNat(SubSeq(log, 7, Min(Occurrences(log, "/")) - 1))>>
    ELSE <<>>

\* For each output, the numbers c of its lines of the form "Epoch c/t ...".
StatedEpochs ==
    [out \in AllLogs |->
        [i \in 1..Len(LogReadings[out].logs) |->
            StatedEpoch(LogReadings[out].logs[i])]]

\* The last line of the form "Epoch c/t ..." of an output, 0 if it has none.
LastStated(out) ==
    Max({0} \cup {i \in DOMAIN StatedEpochs[out] : StatedEpochs[out][i] # <<>>})

ExampleLine == "Epoch 2/5 - Loss: 1.2345\n"

\* C17: a refresh that reads a line of the form "Epoch c/t ..." for a job
\* with total_epochs > 0 leaves current_epoch = c and, unless the batch
\* holds the completion line, progress = c / total_epochs * 100 (c of the
\* last such line); the line "Epoch 2/5 - Loss: 1.2345" with total_epochs 5
\* leaves current_epoch 2, progress 40 and loss 1.2345.
EpochLineSetsEpoch ==
    [][\A t \in DOMAIN training_jobs :
          (ReadsBatch(t) /\ Job(t).total_epochs > 0)
             => LET out == gw'.result.stdout
                    k   == LastStated(out)
                    job == training_jobs'[t]
                IN  /\ k > 0 =>
                         /\ job.current_epoch = StatedEpochs[out][k][1]
                         /\ ~LogReadings[out].completed =>
                               job.progress = Rat(StatedEpochs[out][k][1] * 100,
                                                  job.total_epochs)
                    /\ (out = ExampleLine /\ job.total_epochs = 5) =>
                         /\ job.current_epoch = 2
                         /\ job.progress = RatOfInt(40)
                         /\ job.loss = ParseFloat("1.2345")]_vars

\* C18: a refresh whose batch holds a line with "Training completed"
\* leaves the job Completed with progress 100, whatever epoch lines stand
\* before or after that line in the batch.
CompletionLineWins ==
    [][\A t \in DOMAIN training_jobs :
          (ReadsBatch(t) /\ LogReadings[gw'.result.stdout].completed)
             => /\ training_jobs'[t].status = COMPLETED
                /\ training_jobs'[t].progress = RatOfInt(100)]_vars

\* A job refreshed from a batch whose completion line is followed by an
\* epoch line the epoch rule has read.
CompletionBeforeEpochLineSeen ==
    \E t \in DOMAIN training_jobs :
        /\ gw.kind = "tail" /\ gw.tid = t /\ gw.result.success
        /\ gw.result.stdout = "Training completed\n1/2Epoch loss: 0.5\n"
        /\ Job(t).logs = <<"Training completed", "1/2Epoch loss: 0.5">>
        /\ Job(t).total_epochs = 5
        /\ Job(t).current_epoch = 1
        /\ Job(t).status = COMPLETED
        /\ Job(t).progress = RatOfInt(100)

----------------------------------------------------------------------------
(* The log window and the ranges of progress and epoch *)

\* C19: the record of a job never holds more than 20 log lines, on the
\* remote path and on the mock path.
LogsWithinWindow ==
    \A t \in DOMAIN training_jobs : Len(Job(t).logs) <= LogWindow

\* C20: progress stays within 0..100 and current_epoch within
\* 0..total_epochs, whatever the log holds.
ProgressAndEpochInRange ==
    \A t \in DOMAIN training_jobs :
        /\ RatLeq(RatOfInt(0), Job(t).progress)
        /\ RatLeq(Job(t).progress, RatOfInt(100))
        /\ 0 <= Job(t).current_epoch
        /\ Job(t).current_epoch <= Job(t).total_epochs

----------------------------------------------------------------------------
(* The record of a job, under Spec *)

\* C21: a job whose status is Completed, Failed or Stopped has no process
\* handle (pid) any more.
TerminalJobHasNoHandle ==
    \A t \in DOMAIN training_jobs :
        Job(t).status \in TerminalStatuses => Job(t).pid = ""

\* The step ends a start request whose launch command reported success.
LaunchSucceeds(c) ==
    /\ Returns(c, "start") /\ c.pc = "launch"
    /\ gw'.kind = "launch" /\ ~gw'.result.raised /\ gw'.result.success

\* C22: a start whose launch succeeds inserts a record that is Running with
\* progress 0, current_epoch 0 and total_epochs as requested, creates
\* exactly one Monitor and returns the job id; every step that inserts a
\* record inserts such a one with one Monitor; and no record is ever
\* Pending.
StartRegistersRunning ==
    [][/\ \A c \in calls :
             LaunchSucceeds(c)
                => /\ c.tid \notin DOMAIN training_jobs
                   /\ c.tid \in DOMAIN training_jobs'
                   /\ training_jobs'[c.tid].total_epochs = c.epochs
                   /\ resp' = Response("start", c.tid, "none", "job-" \o c.tid)
       /\ \A t \in DOMAIN training_jobs' \ DOMAIN training_jobs :
             /\ training_jobs'[t].status = RUNNING
             /\ training_jobs'[t].progress = RatOfInt(0)
             /\ training_jobs'[t].current_epoch = 0
             /\ training_jobs'[t].total_epochs \in epochChoices
             /\ t \notin DOMAIN monitors
             /\ t \in DOMAIN monitors' /\ Len(monitors'[t]) = 1
             /\ monitors'[t][1].pc = "ready"
             /\ resp'.op = "start" /\ resp'.tid = t /\ resp'.error = "none"
       /\ \A t \in DOMAIN training_jobs' :
             training_jobs'[t].status # PENDING]_vars

\* A start just answered after a successful launch.
LaunchedJobSeen ==
    \E t \in DOMAIN training_jobs :
        /\ environment = "production"
        /\ gw.kind = "launch" /\ gw.tid = t /\ gw.result.success
        /\ resp = Response("start", t, "none", "job-" \o t)
        /\ Job(t).status = RUNNING /\ Job(t).pid = "4242"
        /\ Job(t).total_epochs = 2
        /\ Len(monitors[t]) = 1 /\ monitors[t][1].pc = "ready"

\* C23: a stop request on a job that is already Completed, Failed or
\* Stopped is answered without error and leaves the status as it was.
\* Stated for the requests during which nothing else runs: those answered
\* at once, and those of the development build, whose kill does not suspend.
StopOnTerminalChangesNothing ==
    [][\A t \in DOMAIN training_jobs :
          (/\ StopAnswered(t)
           /\ Job(t).status \in TerminalStatuses
           /\ ~GatewaySuspends(environment) \/ calls' = calls)
             => /\ resp'.error = "none"
                /\ training_jobs'[t].status = Job(t).status]_vars

----------------------------------------------------------------------------
(* The event stream on upstream failure, under StreamSpec *)

FallbackAnnounced == StatusEvent("Using fallback enhancement method...", 30)

\* Where the sequence announces the fallback.
FallbackAt == {i \in 1..Len(events) : events[i] = FallbackAnnounced}

\* The texts of the content events i..j of the sequence, put together.
RECURSIVE ContentBetween(_, _)
ContentBetween(i, j) ==
    IF i > j THEN ""
    ELSE (IF events[i].type = "content" THEN events[i].text ELSE "")
            \o ContentBetween(i + 1, j)

\* The events enhance_prompt_stream has yielded: all but the first, which
\* the handler sends before it, and the handler's closing event.
YieldedUpTo == IF stream.pc = "done" THEN Len(events) - 1 ELSE Len(events)

\* C24: when the upstream reports a failure (a failure chunk, or the
\* connection raising, which the gateway turns into one), the sequence
\* holds no error event; the fallback is announced once, the content events
\* after the announcement carry the fallback template, and the generator
\* ends with a status event at progress 100.
UpstreamFailureFallsBack ==
    (stream.pc = "fallback" \/ FallbackAt # {})
       => /\ \A i \in 1..Len(events) : events[i].type # "error"
          /\ Cardinality(FallbackAt) <= 1
          /\ stream.pc \in {"fallback", "chunks", "closing", "done"}
          /\ stream.pc \in {"closing", "done"}
                => /\ ContentBetween(Max(FallbackAt), Len(events)) =
                         Join(SplitWs(BasicEnhancement(stream.prompt,
                                                       stream.enhancement_type)),
                              " ")
                   /\ events[YieldedUpTo] = StatusEvent("Enhancement completed!", 100)

\* A request whose upstream failed at once, served to its end with the
\* fallback text of a prompt of several words.
FallbackAfterRefusalSeen ==
    /\ stream.pc = "done"
    /\ stream.prompt = "Why is the sky blue?"
    /\ FallbackAt = {4}
    /\ Cardinality(ContentAt) > 1
    /\ events[Len(events) - 1] = StatusEvent("Enhancement completed!", 100)

\* C25: once the request has got as far as calling the gateway's stream,
\* and so whenever the sequence holds a content event, the second and third
\* events of the sequence are the status events at progress 10 and 20, in
\* that order, and every content event comes after them.
AnalyzingThenConnectingFirst ==
    (stream.pc \notin {"idle", "analyze", "connect"} \/ ContentAt # {})
       => /\ Len(events) >= 3
          /\ events[2].type = "status" /\ events[2].progress = RatOfInt(10)
          /\ events[3].type = "status" /\ events[3].progress = RatOfInt(20)
          /\ events[3].text = "Connecting to AI model..."
          /\ \A i \in ContentAt : i > 3
          /\ \A i \in 1..Len(events) :
                (events[i].type = "status" /\ events[i].progress = RatOfInt(10))
                   => i = 2

\* Upstream content right after the two status events.
ContentAfterConnectingSeen ==
    /\ environment = "production"
    /\ stream.pc = "upstream"
    /\ Len(events) = 4
    /\ events[3] = StatusEvent("Connecting to AI model...", 20)
    /\ events[4] = ContentEvent("Let's ", RatOfInt(20))

----------------------------------------------------------------------------
(* The model versions, under VersionsSpec *)

\* C26: every answer to a listing request is a list whose first element is
\* "base": the development build's list, the list made of a successful
\* listing, and the one-element list made when the listing fails, is empty
\* or raises.
BaseAlwaysFirst ==
    [][/\ resp'.op = "list"
          => /\ resp'.error = "none"
             /\ Len(resp'.body) >= 1 /\ resp'.body[1] = "base"
       /\ \A c \in calls :
             (/\ Returns(c, "list")
              /\ \/ gw'.result.raised \/ ~gw'.result.success
                 \/ Strip(gw'.result.stdout) = "")
                => resp' = Response("list", "", "none", <<"base">>)]_vars

\* A listing of two trained models, answered with "base" before them.
TwoModelsListedSeen ==
    /\ resp.op = "list"
    /\ gw.kind = "ls" /\ gw.result.success
    /\ resp.body = <<"base", "reasoning_enhancer_a1", "reasoning_enhancer_t1">>

----------------------------------------------------------------------------
(* Timestamps and interleavings, under Spec *)

\* C27: updated_at of a record never decreases, whatever step is taken, and
\* is never before created_at; the clock itself never goes back.
UpdatedAtNeverDecreases ==
    [][/\ clock' >= clock
       /\ \A t \in DOMAIN training_jobs :
             /\ t \in DOMAIN training_jobs'
             /\ training_jobs'[t].updated_at >= Job(t).updated_at
       /\ \A t \in DOMAIN training_jobs' :
             training_jobs'[t].updated_at >= training_jobs'[t].created_at]_vars

\* A job found dead by the probe some time after a refresh had stamped it.
StampedAfterCreationSeen ==
    \E t \in DOMAIN training_jobs :
        /\ Job(t).status = FAILED
        /\ Job(t).logs # <<>>
        /\ Job(t).updated_at > Job(t).created_at

\* The step is the return of a gateway command the Monitor of t awaited.
MonitorResumes(t) ==
    \E i \in 1..2 : /\ HasTask(t, i)
                    /\ monitors[t][i].pc \in {"probe", "tail"}
                    /\ monitors'[t][i].pc # monitors[t][i].pc

\* C28: a Monitor cycle that resumes from its gateway command on a job that
\* a stop has meanwhile made Stopped leaves the status Stopped (the loop
\* head lets no cycle begin on a Stopped job, so the stop came while the
\* cycle was suspended); and so does the refresh of a status request taken
\* in right after the job's start, before any stop.
ResumedStepKeepsStopped ==
    [][\A t \in DOMAIN training_jobs :
          (/\ Job(t).status = STOPPED
           /\ \/ MonitorResumes(t)
              \/ \E c \in calls : Returns(c, "status") /\ c.tid = t /\ c.first)
             => training_jobs'[t].status = STOPPED]_vars

\* C29: once a job is Stopped (or terminal in any way, and terminal it
\* stays), its Monitor begins no further cycle: a Monitor that sleeps or
\* has not started can only exit, one that awaits its probe or its tail can
\* only finish the cycle it is in, and the mock monitor simulates no
\* further epoch.  So at most one further probe follows a stop.
NoNewCycleAfterStop ==
    [][\A t \in DOMAIN training_jobs :
          Job(t).status \in TerminalStatuses
             => /\ training_jobs'[t].status \in TerminalStatuses
                /\ \A i \in 1..Len(monitors[t]) :
                      LET pc  == monitors[t][i].pc
                          pc2 == monitors'[t][i].pc
                      IN  /\ pc \in {"ready", "sleep30", "sleep60", "sleep5"}
                             => pc2 \in {pc, "exited"}
                          /\ pc = "exited" => pc2 = "exited"
                          /\ pc = "probe"
                             => pc2 \in {"probe", "tail", "sleep60", "exited"}
                          /\ pc = "tail" => pc2 \in {"tail", "sleep30"}
                          /\ monitors'[t][i].epoch = monitors[t][i].epoch]_vars

\* A Monitor asleep at the end of the cycle during which the stop came.
CycleFinishedAfterStopSeen ==
    \E t \in DOMAIN training_jobs :
        /\ Job(t).status = STOPPED
        /\ resp.op = "stop" /\ resp.tid = t
        /\ gw.kind = "tail" /\ gw.tid = t
        /\ monitors[t][1].pc = "sleep30"

\* The Monitor of t resumes from a gateway command that raised.
MonitorCommandRaised(t, i) ==
    /\ HasTask(t, i)
    /\ monitors[t][i].pc \in {"probe", "tail"}
    /\ monitors'[t][i].pc # monitors[t][i].pc
    /\ gw'.result.raised

----------------------------------------------------------------------------
(* The fallback chunks, under StreamSpec *)

\* The content events that follow the announcement of the fallback.
FallbackContentAt == {i \in ContentAt : FallbackAt # {} /\ i > Max(FallbackAt)}

\* The text the non-streaming request returns when generate fails, with
\* its runs of whitespace as single spaces.
NormalisedFallback(prompt, enhancement_type) ==
    Join(SplitWs(EnhancePromptResult(prompt, enhancement_type,
                     GenerateResult(FALSE, FALSE, FALSE, "")).text),
         " ")

\* The largest number of words the bound on the chunks is checked for.
MaxWords == 120

\* The number of passes of range(0, n, chunk_size) for a text of n words.
ChunkCount(n) ==
    LET size == ChunkSize([k \in 1..n |-> "w"])
    IN  (n + size - 1) \div size

\* C31: on the fallback path every fallback content event has progress
\* within 30..90 and there are fewer than 20 of them; once the generator
\* has ended there is at least one, put together in order they are the
\* whitespace-normalised text the non-streaming request falls back to for
\* the same prompt and category, and the generator's last event is the
\* status event at progress 100.  The count of chunks stays below 20 for
\* every number of words up to MaxWords.
FallbackChunksFaithful ==
    /\ \A i \in FallbackContentAt :
          /\ RatLeq(RatOfInt(30), events[i].progress)
          /\ RatLeq(events[i].progress, RatOfInt(90))
    /\ Cardinality(FallbackContentAt) < 20
    /\ (FallbackAt # {} /\ stream.pc \in {"closing", "done"})
          => /\ Cardinality(FallbackContentAt) >= 1
             /\ Cardinality(FallbackContentAt) = ChunkCount(Len(stream.words))
             /\ ContentBetween(Max(FallbackAt) + 1, Len(events)) =
                   NormalisedFallback(stream.prompt, stream.enhancement_type)
             /\ events[YieldedUpTo].type = "status"
             /\ events[YieldedUpTo].progress = RatOfInt(100)
    /\ \A n \in 1..MaxWords : ChunkCount(n) >= 1 /\ ChunkCount(n) < 20

\* The fallback of a prompt with irregular whitespace, served to its end
\* in more than ten chunks, the last of them beyond progress 80.
IrregularPromptFallbackSeen ==
    /\ stream.pc = "done"
    /\ stream.prompt = "plan  a\ttrip "
    /\ Cardinality(FallbackContentAt) > 10
    /\ \E i \in FallbackContentAt : RatLt(RatOfInt(80), events[i].progress)

----------------------------------------------------------------------------
(* Batches of several lines, under BatchSpec *)

\* The lines of an output from which the epoch rule reads a number, and
\* those from which the loss rule does.
EpochLinesOf(out) ==
    {i \in DOMAIN LogReadings[out].epochs : LogReadings[out].epochs[i] # <<>>}

LossLinesOf(out) ==
    {i \in DOMAIN LogReadings[out].losses : LogReadings[out].losses[i] # <<>>}

NoRuleApplies(out) ==
    /\ ~LogReadings[out].blank
    /\ ~LogReadings[out].completed
    /\ \A i \in 1..Len(LogReadings[out].logs) :
          LET log == LogReadings[out].logs[i]
          IN  /\ ~(Contains(log, "Epoch") /\ Contains(log, "/"))
              /\ ~Contains(Lower(log), "loss")

RuleFree == [out \in AllLogs |-> NoRuleApplies(out)]

\* C33: a refresh whose batch holds only lines no rule applies to leaves
\* status, progress, current_epoch and loss as they were and ends without
\* error: the status request is answered with the snapshot, the Monitor
\* goes on to its ordinary wait.
RuleFreeBatchChangesNothing ==
    [][\A t \in DOMAIN training_jobs :
          (ReadsBatch(t) /\ RuleFree[gw'.result.stdout])
             => /\ training_jobs'[t].status = Job(t).status
                /\ training_jobs'[t].progress = Job(t).progress
                /\ training_jobs'[t].current_epoch = Job(t).current_epoch
                /\ training_jobs'[t].loss = Job(t).loss
                /\ training_jobs'[t].logs = LogReadings[gw'.result.stdout].logs
                /\ \A c \in calls :
                      (Returns(c, "status") /\ c.tid = t)
                         => IsStatusReply(resp') /\ resp'.tid = t
                /\ \A i \in 1..Len(monitors[t]) :
                      (monitors[t][i].pc = "tail" /\ monitors'[t][i].pc # "tail")
                         => monitors'[t][i].pc = "sleep30"]_vars

\* A record that kept epoch, progress and loss through the refresh from a
\* batch of two lines no rule applies to.
RuleFreeBatchReadSeen ==
    \E t \in DOMAIN training_jobs :
        /\ gw.kind = "tail" /\ gw.tid = t /\ gw.result.success
        /\ Job(t).logs = <<"Loading data", "step 10 done">>
        /\ Job(t).current_epoch = 2
        /\ Job(t).loss = ParseFloat("0.3")
        /\ Job(t).status = RUNNING

\* The commands of a remote start, in the order the claim states.
StartOrder == <<"mkdir", "catdata", "catscript", "chmod", "launch">>

\* The step issues command number k of the start for t.
Issues(t, k) ==
    \E c \in calls' \ calls : c.op = "start" /\ c.tid = t /\ c.pc = StartOrder[k]

\* C35: a remote start issues its commands strictly in the order directory
\* creation, content writes, mark-executable, launch: each command but the
\* first is issued by the step in which the one before it returned, so the
\* launch follows the return of every transfer; and a record is inserted
\* only by the step in which the launch returns success.
StartCommandsInOrder ==
    [][/\ \A c \in calls' \ calls :
             c.op = "start" => \E k \in 1..Len(StartOrder) : c.pc = StartOrder[k]
       /\ \A t \in TrainingIds :
             /\ Issues(t, 1)
                   => \A c \in calls : ~(c.op = "start" /\ c.tid = t)
             /\ \A k \in 2..Len(StartOrder) :
                   Issues(t, k)
                      => /\ \E c \in calls \ calls' :
                               c.op = "start" /\ c.tid = t /\ c.pc = StartOrder[k - 1]
                         /\ gw'.kind = StartOrder[k - 1] /\ gw'.tid = t
                         /\ ~gw'.result.raised
             /\ (GatewaySuspends(environment) /\ ~Known(t)
                   /\ t \in DOMAIN training_jobs')
                   => /\ \E c \in calls \ calls' :
                            c.op = "start" /\ c.tid = t /\ c.pc = "launch"
                      /\ gw'.kind = "launch" /\ gw'.tid = t
                      /\ ~gw'.result.raised /\ gw'.result.success]_vars

\* A launch awaited after a transfer command that reported failure.
LaunchIssuedAfterTransfersSeen ==
    \E c \in calls :
        /\ c.op = "start" /\ c.pc = "launch" /\ ~c.staged
        /\ gw.kind = "chmod" /\ gw.tid = c.tid
        /\ ~Known(c.tid)

\* C36: when the kill command of a stop request for a Running job reports
\* failure, the request is answered without an error and the job's record,
\* its status and its updated_at among the rest, is left as it was: the job
\* stays Running.
RefusedKillLeavesJobRunning ==
    [][\A c \in calls :
          (/\ Returns(c, "stop")
           /\ Job(c.tid).status = RUNNING
           /\ ~gw'.result.raised /\ ~gw'.result.success)
              => /\ resp' = Response("stop", c.tid, "none", None)
                 /\ training_jobs'[c.tid] = Job(c.tid)
                 /\ training_jobs'[c.tid].status = RUNNING
                 /\ training_jobs'[c.tid].updated_at = Job(c.tid).updated_at]_vars

\* A stop answered after a refused kill, later than the job's last change:
\* the job is Running and holds its handle.
RefusedKillAnsweredSeen ==
    \E t \in DOMAIN training_jobs :
        /\ resp = Response("stop", t, "none", None)
        /\ gw.kind = "kill" /\ gw.tid = t
        /\ ~gw.result.raised /\ ~gw.result.success
        /\ Job(t).status = RUNNING /\ Job(t).pid # ""
        /\ Job(t).updated_at < clock

\* C37: the content events of a sequence come from one source: no content
\* event precedes the status event that announces the fallback, so that the
\* content of a request served through the fallback is the fallback text
\* and nothing else.
ContentFromOneSource ==
    /\ \A j \in FallbackAt : \A i \in ContentAt : j < i
    /\ (stream.pc = "done" /\ FallbackAt # {})
          => ContentBetween(1, Len(events)) =
                NormalisedFallback(stream.prompt, stream.enhancement_type)

\* The mock monitor i of job t takes a step.
MockMonitorSteps(t, i) ==
    /\ monitors[t][i].kind = "mock"
    /\ monitors'[t][i] # monitors[t][i]

\* C38: in development a started job that is not stopped is eventually
\* Completed with progress 100 and current_epoch = total_epochs; each pass
\* of the mock monitor's loop raises current_epoch by exactly one and the
\* step that ends the loop of a Running job completes it; and once the job
\* has been stopped the mock monitor ends without changing the record, so
\* it never sets Completed.
MockJobRunsToCompletion ==
    /\ \A t \in TrainingIds :
          (environment = "development" /\ Known(t))
             ~> (/\ Known(t)
                 /\ \/ Job(t).status = STOPPED
                    \/ /\ Job(t).status = COMPLETED
                       /\ Job(t).progress = RatOfInt(100)
                       /\ Job(t).current_epoch = Job(t).total_epochs)
    /\ [][\A t \in DOMAIN training_jobs : \A i \in 1..Len(monitors[t]) :
             MockMonitorSteps(t, i)
                => IF Job(t).status # RUNNING
                   THEN /\ training_jobs'[t] = Job(t)
                        /\ monitors'[t][i].pc = "exited"
                   ELSE IF monitors'[t][i].pc = "exited"
                   THEN /\ Job(t).current_epoch = Job(t).total_epochs
                        /\ training_jobs'[t].current_epoch = Job(t).total_epochs
                        /\ training_jobs'[t].status = COMPLETED
                        /\ training_jobs'[t].progress = RatOfInt(100)
                   ELSE /\ training_jobs'[t].current_epoch = Job(t).current_epoch + 1
                        /\ training_jobs'[t].current_epoch <= Job(t).total_epochs
                        /\ training_jobs'[t].status = RUNNING]_vars

\* A development job run to its end by the mock monitor.
MockJobCompletedSeen ==
    \E t \in DOMAIN training_jobs :
        /\ environment = "development"
        /\ Job(t).status = COMPLETED /\ Job(t).pid = "mock_pid"
        /\ Job(t).current_epoch = 2 /\ Job(t).total_epochs = 2
        /\ Job(t).progress = RatOfInt(100)
        /\ monitors[t][1].kind = "mock" /\ monitors[t][1].pc = "exited"
        /\ Job(t).logs[Len(Job(t).logs)] = "Mock training completed successfully!"

\* C39: a launch that succeeds with empty output registers the job Running
\* with an empty process handle; the Monitor of a job with an empty handle
\* never awaits a liveness probe; and a stop request for such a job is
\* answered at once without an error, awaits no kill command and leaves the
\* record, a Running status with it, as it was.
EmptyHandleNeverProbedNorKilled ==
    [][\A t \in DOMAIN training_jobs' :
          /\ (/\ ~Known(t)
              /\ gw'.kind = "launch" /\ gw'.result.success
              /\ Strip(gw'.result.stdout) = "")
                => /\ training_jobs'[t].status = RUNNING
                   /\ training_jobs'[t].pid = ""
          /\ training_jobs'[t].pid = ""
                => /\ \A i \in 1..Len(monitors'[t]) : monitors'[t][i].pc # "probe"
                   /\ \A c \in calls' : ~(c.op = "stop" /\ c.tid = t)
                   /\ gw' # gw => ~(gw'.kind \in {"ps", "kill"} /\ gw'.tid = t)
          /\ (Known(t) /\ Job(t).pid = "" /\ StopAnswered(t))
                => /\ resp' = Response("stop", t, "none", None)
                   /\ training_jobs'[t] = Job(t)
                   /\ calls' = calls /\ gw' = gw]_vars

\* A stop answered for a Running job without a handle whose Monitor has
\* finished a cycle.
HandlelessJobStopAnsweredSeen ==
    \E t \in DOMAIN training_jobs :
        /\ Job(t).pid = "" /\ Job(t).status = RUNNING
        /\ resp = Response("stop", t, "none", None)
        /\ gw.kind = "tail" /\ gw.tid = t
        /\ monitors[t][1].pc = "sleep30"

\* C40: while the remote log only grows and its epoch numbers only
\* increase, the current_epoch and the progress of each status snapshot are
\* at least those of the snapshot sent before it, whatever the order in
\* which the tail commands of the Monitor and of the requests return.
SnapshotsNeverGoBack ==
    [][\A c \in calls :
          (/\ Returns(c, "status")
           /\ IsStatusReply(resp) /\ resp.tid = c.tid)
              => /\ IsStatusReply(resp')
                 /\ resp'.body.current_epoch >= resp.body.current_epoch
                 /\ RatLeq(resp.body.progress, resp'.body.progress)]_vars

====
